---- MODULE Spec2Model ----
(***************************************************************************)
(* payflow-ops: the payment and payout endpoints (Next.js API routes and   *)
(* the MSW mock handlers, which keep separate in-memory stores and serve   *)
(* the same URLs) and the realtime backpressure buffer.                    *)
(*                                                                         *)
(* Handlers are async functions: between two awaits a handler runs         *)
(* atomically, and at an await another request's handler may run.  Each    *)
(* action below is one such atomic segment.                                *)
(***************************************************************************)
EXTENDS Integers, Sequences, FiniteSets, TLC

(***************************************************************************)
(* Bounds of the model.                                                    *)
(***************************************************************************)
MaxInflight == 2
MaxRequests == 2

Slots == 1..MaxInflight

(***************************************************************************)
(* Payment lifecycle: src/lib/utils/time.ts (lib/state-machines/           *)
(* payment-lifecycle), the table the MSW handlers use.                     *)
(***************************************************************************)
PaymentStatuses ==
  {"draft", "submitted", "processing", "requires_action", "succeeded", "failed", "canceled"}

PAYMENT_TRANSITIONS ==
  << <<"draft", "submitted">>, <<"draft", "canceled">>,
     <<"submitted", "processing">>, <<"submitted", "failed">>, <<"submitted", "canceled">>,
     <<"processing", "requires_action">>, <<"processing", "succeeded">>, <<"processing", "failed">>,
     <<"requires_action", "processing">>, <<"requires_action", "succeeded">>,
     <<"requires_action", "failed">>, <<"requires_action", "canceled">> >>

\* transitionMap: the keys `${from}->${to}` of the table
transitionMap == { PAYMENT_TRANSITIONS[i] : i \in DOMAIN PAYMENT_TRANSITIONS }

\* PAYMENT_TRANSITIONS.filter((t) => t.from === fromStatus), kept in table order
getValidTransitions(fromStatus) ==
  SelectSeq(PAYMENT_TRANSITIONS, LAMBDA t : t[1] = fromStatus)

canTransition(from, to) == <<from, to>> \in transitionMap

\* the targets of getValidTransitions(from), as getTransitionBlockReason lists them
validTargets(from) ==
  LET v == getValidTransitions(from) IN [i \in DOMAIN v |-> v[i][2]]

RECURSIVE JoinWith(_, _)
JoinWith(seq, sep) ==
  IF seq = <<>> THEN ""
  ELSE IF Len(seq) = 1 THEN seq[1]
  ELSE seq[1] \o sep \o JoinWith(Tail(seq), sep)

SeqToSet(seq) == { seq[i] : i \in DOMAIN seq }

getTransitionBlockReason(from, to) ==
  IF canTransition(from, to) THEN ""
  ELSE IF Len(getValidTransitions(from)) = 0
    \* the source's message has an em dash where this one has "-"
    THEN "Payment is in terminal state \"" \o from \o "\" - no further transitions allowed"
  ELSE IF to \notin SeqToSet(validTargets(from))
    THEN "Cannot transition from \"" \o from \o "\" to \"" \o to
           \o "\". Valid targets: " \o JoinWith(validTargets(from), ", ")
  ELSE "Invalid transition from \"" \o from \o "\" to \"" \o to \o "\""

(***************************************************************************)
(* The API routes' own tables: src/unnamed/part_013 (transition route) and *)
(* src/app/api/payments/[id]/cancel/route.ts.                              *)
(***************************************************************************)
VALID_TRANSITIONS ==
  [s \in PaymentStatuses |->
     CASE s = "draft" -> <<"submitted", "canceled">>
       [] s = "submitted" -> <<"processing", "canceled">>
       [] s = "processing" -> <<"succeeded", "failed", "requires_action">>
       [] s = "requires_action" -> <<"processing", "succeeded", "failed", "canceled">>
       [] OTHER -> <<>>]

CANCELABLE_STATUSES == {"draft", "submitted", "requires_action"}

(***************************************************************************)
(* The table of src/lib/types/payout.ts (its PAYMENT_TRANSITIONS).         *)
(***************************************************************************)
TYPES_PAYMENT_TRANSITIONS ==
  [s \in PaymentStatuses |->
     CASE s = "draft" -> <<"submitted", "canceled">>
       [] s = "submitted" -> <<"processing", "failed">>
       [] s = "processing" -> <<"requires_action", "succeeded", "failed">>
       [] s = "requires_action" -> <<"processing", "succeeded", "failed", "canceled">>
       [] OTHER -> <<>>]

\* PAYMENT_TRANSITIONS[from].includes(to)
canTransitionPayment(from, to) == to \in SeqToSet(TYPES_PAYMENT_TRANSITIONS[from])

(***************************************************************************)
(* The payment state graph of the specification (section 4.1), against     *)
(* which the endpoints are judged.                                         *)
(***************************************************************************)
PaymentGraph ==
  {<<"draft", "submitted">>, <<"draft", "canceled">>,
   <<"submitted", "processing">>, <<"submitted", "failed">>, <<"submitted", "canceled">>,
   <<"processing", "requires_action">>, <<"processing", "succeeded">>, <<"processing", "failed">>,
   <<"requires_action", "processing">>, <<"requires_action", "succeeded">>,
   <<"requires_action", "failed">>, <<"requires_action", "canceled">>}

PaymentTerminal == {"succeeded", "failed", "canceled"}

(***************************************************************************)
(* Idempotency keys: src/unnamed/part_007 (lib/utils/idempotency).         *)
(***************************************************************************)
AlphaNum == "abcdefghijklmnopqrstuvwxyz0123456789"

CharAt(str, i) == SubSeq(str, i, i)

IsAlphaNum(c) == \E i \in 1..Len(AlphaNum) : CharAt(AlphaNum, i) = c

\* /^idem_[a-z0-9]+_[a-z0-9]+$/.test(key) && key.length >= 15
isValidIdempotencyKey(key) ==
  /\ Len(key) >= 15
  /\ SubSeq(key, 1, 5) = "idem_"
  /\ \E j \in 7..(Len(key) - 1) :
       /\ CharAt(key, j) = "_"
       /\ \A i \in 6..Len(key) : i # j => IsAlphaNum(CharAt(key, i))

\* request.headers.get('Idempotency-Key') is null when the header is absent
KeyMissing == ""
\* the key of the specification's double-submit scenario
KeySpecExample == "idem_abc"
\* a key as generateIdempotencyKey() makes them: idem_{timestamp}_{random}
KeyClient == "idem_lq2x9k3a_f7h2k9qz"
\* the key generatePayment() gives a seeded payment: idem_${Date.now()}_${1000..9999}
KeySeed == "idem_1700000000000_4821"

Keys == {KeyMissing, KeySpecExample, KeyClient, KeySeed}

(***************************************************************************)
(* Request bodies: JSON objects, an ordered list of members.  A member is  *)
(* a number, a string or a nested object of scalar members.                *)
(***************************************************************************)
Num(k, n) == [k |-> k, kind |-> "num", n |-> n, s |-> "", o |-> <<>>]
Str(k, s) == [k |-> k, kind |-> "str", n |-> 0, s |-> s, o |-> <<>>]
Obj(k, members) == [k |-> k, kind |-> "obj", n |-> 0, s |-> "", o |-> members]

BodyUsd == << Num("amount", 1000), Str("currency", "USD") >>
\* the same members in another order
BodyUsdReordered == << Str("currency", "USD"), Num("amount", 1000) >>
BodyEur == << Num("amount", 1000), Str("currency", "EUR") >>
BodyZero == << Num("amount", 0), Str("currency", "USD") >>

Bodies == {BodyUsd, BodyUsdReordered, BodyEur, BodyZero}

\* bodies that differ only inside metadata
BodyMeta ==
  << Num("amount", 1000), Str("currency", "USD"), Obj("metadata", << Str("orderId", "A") >>) >>
BodyMetaOther ==
  << Num("amount", 1000), Str("currency", "USD"), Obj("metadata", << Str("orderId", "B") >>) >>

\* the bodies of the calls that reuse a key
ReplayBodies == {BodyUsd, BodyEur, BodyMeta, BodyMetaOther}

HasMember(members, name) == \E i \in DOMAIN members : members[i].k = name

\* obj[name]: the last member of that name
Member(members, name) ==
  members[CHOOSE i \in DOMAIN members :
            /\ members[i].k = name
            /\ \A j \in DOMAIN members : members[j].k = name => j <= i]

\* body.amount as the handlers test it: !body.amount || body.amount <= 0
AmountOf(body) ==
  IF HasMember(body, "amount") /\ Member(body, "amount").kind = "num"
    THEN Member(body, "amount").n
    ELSE 0

OwnKeys(members) == [i \in DOMAIN members |-> members[i].k]

\* String comparison by UTF-16 code unit, the order of Array.prototype.sort()
CodeOrder == "0123456789ABCDEFGHIJKLMNOPQRSTUVWXYZ_abcdefghijklmnopqrstuvwxyz"

CodeOf(c) == CHOOSE i \in 1..Len(CodeOrder) : CharAt(CodeOrder, i) = c

RECURSIVE StrLess(_, _)
StrLess(a, b) ==
  IF Len(b) = 0 THEN FALSE
  ELSE IF Len(a) = 0 THEN TRUE
  ELSE IF CharAt(a, 1) = CharAt(b, 1) THEN StrLess(Tail(a), Tail(b))
  ELSE CodeOf(CharAt(a, 1)) < CodeOf(CharAt(b, 1))

RECURSIVE InsertSorted(_, _)
InsertSorted(sorted, x) ==
  IF sorted = <<>> THEN <<x>>
  ELSE IF StrLess(x, sorted[1]) THEN <<x>> \o sorted
  ELSE <<sorted[1]>> \o InsertSorted(Tail(sorted), x)

RECURSIVE SortStrings(_)
SortStrings(seq) ==
  IF seq = <<>> THEN <<>> ELSE InsertSorted(SortStrings(Tail(seq)), seq[1])

\* JSON.stringify(value, replacer): with an array replacer only the listed
\* property names are written, in the array's order, at every nesting level
RECURSIVE JsonObject(_, _, _)
JsonMember(m, filtered, names) ==
  "\"" \o m.k \o "\":" \o
    (CASE m.kind = "num" -> ToString(m.n)
       [] m.kind = "str" -> "\"" \o m.s \o "\""
       [] OTHER -> JsonObject(m.o, filtered, names))

JsonObject(members, filtered, names) ==
  LET written == IF filtered
                   THEN SelectSeq(names, LAMBDA n : HasMember(members, n))
                   ELSE OwnKeys(members)
      texts == [i \in DOMAIN written |->
                  JsonMember(Member(members, written[i]), filtered, names)]
  IN "{" \o JoinWith(texts, ",") \o "}"

\* the API route's fingerprint: JSON.stringify(body)
JsonStringify(body) == JsonObject(body, FALSE, <<>>)

\* hashRequest(params) = JSON.stringify(params, Object.keys(params).sort())
hashRequest(params) == JsonObject(params, TRUE, SortStrings(OwnKeys(params)))

(***************************************************************************)
(* State.                                                                  *)
(*   backend              which server answers /api/payments and           *)
(*                        /api/payouts: the API routes or the MSW handlers *)
(*   paymentStore         Map<id, StoredPayment>                           *)
(*   idempotencyKeyStore  Map<key, {paymentId, requestHash, result}>       *)
(*   reqs                 the requests in flight, one per slot: the        *)
(*                        handler's position ("idle", "body" while it      *)
(*                        awaits request.json(), "done" once it has        *)
(*                        returned), the locals it holds across the await, *)
(*                        and at "done" the request body it read and the   *)
(*                        response it returned                             *)
(*   created              how many payments POST /api/payments has made    *)
(*   clock                the time of the latest store write (Date.now())  *)
(*   started              how many requests have been received             *)
(*   firstCall            per key, the call that created its payment: the  *)
(*                        body it sent and the payment it was answered     *)
(***************************************************************************)
VARIABLES backend, paymentStore, idempotencyKeyStore, reqs, created, clock, started,
          firstCall

payVars == <<backend, paymentStore, idempotencyKeyStore, reqs, created, clock, started,
            firstCall>>

(***************************************************************************)
(* Payouts.                                                                *)
(*   payoutStore     Map<id, PayoutBatch>                                  *)
(*   payoutReqs      the payout requests in flight, as reqs                *)
(*   payoutStarted   how many payout requests have been received           *)
(***************************************************************************)
VARIABLES payoutStore, payoutReqs, payoutStarted

payoutVars == <<payoutStore, payoutReqs, payoutStarted>>

(***************************************************************************)
(* useBackpressureBuffer.                                                  *)
(*   maxBufferSize    the option the hook was called with                  *)
(*   bufferRef, droppedCountRef, flushTimeoutRef, lastFlushRef  its refs   *)
(*   state            its React state                                      *)
(*   now              Date.now()                                           *)
(*   timers           the due times of the timeouts that are set           *)
(*   mounted          FALSE once the cleanup of the hook has run           *)
(*   delivered        the batches onFlush has been called with, in order   *)
(*   pushes           the items push has been called with, in order        *)
(*   run              where the current run of pushes began: the number of *)
(*                    pushes and droppedCountRef when the queue was last   *)
(*                    emptied, and whether the count was reset since       *)
(***************************************************************************)
VARIABLES maxBufferSize, bufferRef, droppedCountRef, flushTimeoutRef, lastFlushRef,
          state, now, timers, mounted, delivered, pushes, run

bufferVars == <<maxBufferSize, bufferRef, droppedCountRef, flushTimeoutRef, lastFlushRef,
                state, now, timers, mounted, delivered, pushes, run>>

(***************************************************************************)
(* useSSE.                                                                 *)
(*   sseState             its React state                                  *)
(*   lastSequenceRef, reconnectTimeoutRef, eventSourceRef   its refs       *)
(*   sources              the EventSources created so far, by number, and  *)
(*                        where each stands: "connecting", "open",         *)
(*                        "closed"                                         *)
(*   sseTimers            the reconnect timeouts that are set, by number   *)
(*   sseMounted           FALSE once the cleanup of the effect has run     *)
(*   sseLog               how many timeouts were set, how many times       *)
(*                        reconnect() was called, how many messages        *)
(*                        arrived and the sequence of the latest, whether  *)
(*                        a connection ever opened                         *)
(***************************************************************************)
VARIABLES sseState, lastSequenceRef, reconnectTimeoutRef, eventSourceRef, sources,
          sseTimers, sseMounted, sseLog

sseVars == <<sseState, lastSequenceRef, reconnectTimeoutRef, eventSourceRef, sources,
             sseTimers, sseMounted, sseLog>>

(***************************************************************************)
(* IdempotencyStore.                                                       *)
(*   store           Map<key, {result, requestHash, createdAt}>            *)
(*   storeNow        Date.now()                                            *)
(*   checked         what the latest check(key, requestHash) returned      *)
(***************************************************************************)
VARIABLES store, storeNow, checked

storeVars == <<store, storeNow, checked>>

\* The last call of a payment legality function and what it returned: `legal`
\* for canTransition and canTransitionPayment, `reason` for
\* getTransitionBlockReason.
VARIABLES asked

lifecycleVars == <<asked>>

Backends == {"route", "msw"}

Undefined == -1

NoPayment == [id |-> "", idempotencyKey |-> "", status |-> "", amount |-> 0, updatedAt |-> 0]

NoStored == [payment |-> NoPayment, version |-> 0, idempotencyHash |-> ""]

Idle ==
  [pc |-> "idle", op |-> "", id |-> "", key |-> "", body |-> <<>>,
   targetStatus |-> "", expectedVersion |-> Undefined, outcome |-> "",
   stored |-> NoStored, code |-> 0, error |-> "", message |-> "", data |-> NoPayment]

SeedId == "pay_seed_1"

\* `pay_${Date.now().toString(36)}_${random}`: a fresh id for each creation
NewId(n) == "pay_new_" \o ToString(n)

\* the ids requests are addressed to; NewId(1) is unknown until it is created
PaymentIds == {SeedId, NewId(1)}

\* Map.prototype.set
MapSet(map, k, v) == [x \in (DOMAIN map) \cup {k} |-> IF x = k THEN v ELSE map[x]]

EmptyMap == [x \in {} |-> 0]

\* initializePaymentStore(): seeded payments, one per status, version 1, no
\* idempotency record; the model keeps one seeded payment of any status
initializePaymentStore(status) ==
  MapSet(EmptyMap, SeedId,
         [payment |-> [id |-> SeedId, idempotencyKey |-> KeySeed, status |-> status,
                       amount |-> 1000, updatedAt |-> 0],
          version |-> 1, idempotencyHash |-> ""])

\* The slots as a new request finds them: a handler that has returned keeps
\* its response in its slot until the next request arrives, so two slots are
\* "done" together only if their handlers overlapped.
Free == [s \in Slots |-> IF reqs[s].pc = "done" THEN Idle ELSE reqs[s]]

\* A request arrives and takes the first free slot.
Receive(r) ==
  /\ Free[r].pc = "idle"
  /\ \A s \in Slots : s < r => Free[s].pc # "idle"
  /\ started < MaxRequests
  /\ started' = started + 1

(***************************************************************************)
(* POST /api/payments                                                      *)
(***************************************************************************)
\* CreateCommit without the lookup of the key (lines 57-66 of part_013 left
\* out): every call with a positive amount creates a payment
CreateCommitNoLookup(r, body, requestHash) ==
  LET key == reqs[r].key
      id == NewId(created + 1)
      payment == [id |-> id, idempotencyKey |-> key, status |-> "draft",
                  amount |-> AmountOf(body), updatedAt |-> clock + 1]
      read == [reqs EXCEPT ![r].body = body]
  IN IF AmountOf(body) <= 0
       THEN /\ reqs' = [read EXCEPT ![r].pc = "done", ![r].code = 400,
                           ![r].error = "INVALID_AMOUNT"]
            /\ UNCHANGED <<paymentStore, idempotencyKeyStore, created, clock, firstCall>>
     ELSE /\ paymentStore' = MapSet(paymentStore, id,
                 [payment |-> payment, version |-> 1, idempotencyHash |-> requestHash])
          /\ idempotencyKeyStore' = MapSet(idempotencyKeyStore, key,
                 [paymentId |-> id, requestHash |-> requestHash, result |-> payment])
          /\ created' = created + 1
          /\ clock' = clock + 1
          /\ firstCall' = IF key \in DOMAIN firstCall THEN firstCall
                          ELSE MapSet(firstCall, key, [body |-> body, payment |-> payment])
          /\ reqs' = [read EXCEPT ![r].pc = "done", ![r].code = 201, ![r].data = payment]

\* CreateCommit without setIdempotencyRecord (line 96 of part_013 left out):
\* the key of a created payment is never recorded
CreateCommitNoRecord(r, body, requestHash) ==
  LET key == reqs[r].key
      id == NewId(created + 1)
      payment == [id |-> id, idempotencyKey |-> key, status |-> "draft",
                  amount |-> AmountOf(body), updatedAt |-> clock + 1]
      read == [reqs EXCEPT ![r].body = body]
  IN IF key \in DOMAIN idempotencyKeyStore
       THEN /\ reqs' = [read EXCEPT ![r].pc = "done",
                           ![r].code = IF idempotencyKeyStore[key].requestHash # requestHash
                                         THEN 422 ELSE 200,
                           ![r].data = idempotencyKeyStore[key].result]
            /\ UNCHANGED <<paymentStore, idempotencyKeyStore, created, clock, firstCall>>
     ELSE IF AmountOf(body) <= 0
       THEN /\ reqs' = [read EXCEPT ![r].pc = "done", ![r].code = 400,
                           ![r].error = "INVALID_AMOUNT"]
            /\ UNCHANGED <<paymentStore, idempotencyKeyStore, created, clock, firstCall>>
     ELSE /\ paymentStore' = MapSet(paymentStore, id,
                 [payment |-> payment, version |-> 1, idempotencyHash |-> requestHash])
          /\ created' = created + 1
          /\ clock' = clock + 1
          /\ firstCall' = IF key \in DOMAIN firstCall THEN firstCall
                          ELSE MapSet(firstCall, key, [body |-> body, payment |-> payment])
          /\ reqs' = [read EXCEPT ![r].pc = "done", ![r].code = 201, ![r].data = payment]
          /\ UNCHANGED idempotencyKeyStore

\* The handler from the existing-key check to its response, run without an
\* await: part_013 lines 56-98, part_004 lines 247-316.
CreateCommit(r, body, requestHash) ==
  LET key == reqs[r].key
      id == NewId(created + 1)
      payment == [id |-> id, idempotencyKey |-> key, status |-> "draft",
                  amount |-> AmountOf(body), updatedAt |-> clock + 1]
      read == [reqs EXCEPT ![r].body = body]
  IN IF key \in DOMAIN idempotencyKeyStore
       THEN /\ IF idempotencyKeyStore[key].requestHash # requestHash
                 THEN reqs' = [read EXCEPT ![r].pc = "done", ![r].code = 422,
                                  ![r].error = "IDEMPOTENCY_CONFLICT",
                                  ![r].message = "Idempotency key was already used with different parameters"]
                 ELSE reqs' = [read EXCEPT ![r].pc = "done", ![r].code = 200,
                                  ![r].data = idempotencyKeyStore[key].result]
            /\ UNCHANGED <<paymentStore, idempotencyKeyStore, created, clock, firstCall>>
     ELSE IF AmountOf(body) <= 0
       THEN /\ reqs' = [read EXCEPT ![r].pc = "done", ![r].code = 400,
                           ![r].error = "INVALID_AMOUNT",
                           ![r].message = "Amount must be a positive integer"]
            /\ UNCHANGED <<paymentStore, idempotencyKeyStore, created, clock, firstCall>>
     ELSE /\ paymentStore' = MapSet(paymentStore, id,
                 [payment |-> payment, version |-> 1, idempotencyHash |-> requestHash])
          /\ idempotencyKeyStore' = MapSet(idempotencyKeyStore, key,
                 [paymentId |-> id, requestHash |-> requestHash, result |-> payment])
          /\ created' = created + 1
          /\ firstCall' = MapSet(firstCall, key, [body |-> body, payment |-> payment])
          /\ clock' = clock + 1
          /\ reqs' = [read EXCEPT ![r].pc = "done", ![r].code = 201, ![r].data = payment]

\* API route, up to `await request.json()`
RouteCreateReceive(r, key) ==
  /\ backend = "route"
  /\ Receive(r)
  /\ LET q == [Idle EXCEPT !.op = "create", !.key = key] IN
       IF key = KeyMissing
         THEN reqs' = [Free EXCEPT ![r] =
                [q EXCEPT !.pc = "done", !.code = 400, !.error = "MISSING_IDEMPOTENCY_KEY",
                          !.message = "Idempotency-Key header is required"]]
         ELSE reqs' = [Free EXCEPT ![r] = [q EXCEPT !.pc = "body"]]
  /\ UNCHANGED <<backend, paymentStore, idempotencyKeyStore, created, clock>>
  /\ UNCHANGED <<firstCall, payoutVars, bufferVars, sseVars, storeVars, lifecycleVars>>

\* API route, after `await request.json()`
RouteCreateResume(r, body) ==
  /\ backend = "route"
  /\ reqs[r].pc = "body" /\ reqs[r].op = "create"
  /\ CreateCommit(r, body, JsonStringify(body))
  /\ UNCHANGED <<backend, started>>
  /\ UNCHANGED <<payoutVars, bufferVars, sseVars, storeVars, lifecycleVars>>

\* MSW handler, up to `await request.json()`
MswCreateReceive(r, key) ==
  /\ backend = "msw"
  /\ Receive(r)
  /\ LET q == [Idle EXCEPT !.op = "create", !.key = key] IN
       IF key = KeyMissing
         THEN reqs' = [Free EXCEPT ![r] =
                [q EXCEPT !.pc = "done", !.code = 400, !.error = "MISSING_IDEMPOTENCY_KEY",
                          !.message = "Idempotency-Key header is required for payment creation"]]
       ELSE IF ~isValidIdempotencyKey(key)
         THEN reqs' = [Free EXCEPT ![r] =
                [q EXCEPT !.pc = "done", !.code = 400, !.error = "INVALID_IDEMPOTENCY_KEY",
                          !.message = "Idempotency key format is invalid. Expected format: idem_{timestamp}_{random}"]]
         ELSE reqs' = [Free EXCEPT ![r] = [q EXCEPT !.pc = "body"]]
  /\ UNCHANGED <<backend, paymentStore, idempotencyKeyStore, created, clock>>
  /\ UNCHANGED <<firstCall, payoutVars, bufferVars, sseVars, storeVars, lifecycleVars>>

\* MSW handler, after `await request.json()`
MswCreateResume(r, body) ==
  /\ backend = "msw"
  /\ reqs[r].pc = "body" /\ reqs[r].op = "create"
  /\ CreateCommit(r, body, hashRequest(body))
  /\ UNCHANGED <<backend, started>>
  /\ UNCHANGED <<payoutVars, bufferVars, sseVars, storeVars, lifecycleVars>>

(***************************************************************************)
(* Handlers addressed to one payment.  Each reads the store when it is     *)
(* entered and keeps that StoredPayment in the local `stored`.             *)
(***************************************************************************)
\* const stored = getPayment(id); if (!stored) return 404
Lookup(r, op, id, next) ==
  LET q == [Idle EXCEPT !.op = op, !.id = id] IN
    IF id \notin DOMAIN paymentStore
      THEN [Free EXCEPT ![r] = [q EXCEPT !.pc = "done", !.code = 404, !.error = "NOT_FOUND",
                                         !.message = "Payment " \o id \o " not found"]]
      ELSE [Free EXCEPT ![r] = [q EXCEPT !.pc = next, !.stored = paymentStore[id]]]

\* updatedPayment = {...stored.payment, status, updatedAt: new Date()}
Updated(stored, status) ==
  [stored.payment EXCEPT !.status = status, !.updatedAt = clock + 1]

\* setPayment(id, {...stored, payment: updatedPayment, version: stored.version + 1})
WritePayment(id, stored, status) ==
  MapSet(paymentStore, id,
         [stored EXCEPT !.payment = Updated(stored, status),
                        !.version = stored.version + 1])

(***************************************************************************)
(* POST /api/payments/:id/transition                                       *)
(***************************************************************************)
\* The handler after `await request.json()`: part_013 lines 147-204,
\* part_004 lines 354-434; `allowed` and `reason` are the verdict of the
\* backend's own transition table.
TransitionCommit(r, targetStatus, expectedVersion, modified, allowed, reason) ==
  LET stored == reqs[r].stored
      currentStatus == stored.payment.status
      updatedPayment == Updated(stored, targetStatus)
      read == [reqs EXCEPT ![r].targetStatus = targetStatus,
                           ![r].expectedVersion = expectedVersion]
  IN IF expectedVersion # Undefined /\ expectedVersion # stored.version
       THEN /\ reqs' = [read EXCEPT ![r].pc = "done", ![r].code = 409,
                           ![r].error = "CONCURRENT_MODIFICATION",
                           ![r].message = modified]
            /\ UNCHANGED <<paymentStore, idempotencyKeyStore, clock>>
     ELSE IF currentStatus = targetStatus
       THEN /\ reqs' = [read EXCEPT ![r].pc = "done", ![r].code = 200,
                           ![r].data = stored.payment]
            /\ UNCHANGED <<paymentStore, idempotencyKeyStore, clock>>
     ELSE IF ~allowed
       THEN /\ reqs' = [read EXCEPT ![r].pc = "done", ![r].code = 422,
                           ![r].error = "INVALID_TRANSITION", ![r].message = reason]
            /\ UNCHANGED <<paymentStore, idempotencyKeyStore, clock>>
     ELSE /\ paymentStore' = WritePayment(reqs[r].id, stored, targetStatus)
          /\ idempotencyKeyStore' =
               IF updatedPayment.idempotencyKey \in DOMAIN idempotencyKeyStore
                 THEN [idempotencyKeyStore EXCEPT
                         ![updatedPayment.idempotencyKey].result = updatedPayment]
                 ELSE idempotencyKeyStore
          /\ clock' = clock + 1
          /\ reqs' = [read EXCEPT ![r].pc = "done", ![r].code = 200,
                         ![r].data = updatedPayment]

\* both backends, up to `await request.json()`: part_013 lines 136-146,
\* part_004 lines 332-346
TransitionReceive(r, id) ==
  /\ Receive(r)
  /\ reqs' = Lookup(r, "transition", id, "body")
  /\ UNCHANGED <<backend, paymentStore, idempotencyKeyStore, created, clock>>
  /\ UNCHANGED <<firstCall, payoutVars, bufferVars, sseVars, storeVars, lifecycleVars>>

RouteTransitionResume(r, targetStatus, expectedVersion) ==
  /\ backend = "route"
  /\ reqs[r].pc = "body" /\ reqs[r].op = "transition"
  /\ LET currentStatus == reqs[r].stored.payment.status IN
       TransitionCommit(r, targetStatus, expectedVersion,
          "Payment was modified. Please refetch and retry.",
          targetStatus \in SeqToSet(VALID_TRANSITIONS[currentStatus]),
          "Cannot transition from \"" \o currentStatus \o "\" to \"" \o targetStatus \o "\"")
  /\ UNCHANGED <<backend, created, started>>
  /\ UNCHANGED <<firstCall, payoutVars, bufferVars, sseVars, storeVars, lifecycleVars>>

MswTransitionResume(r, targetStatus, expectedVersion) ==
  /\ backend = "msw"
  /\ reqs[r].pc = "body" /\ reqs[r].op = "transition"
  /\ LET currentStatus == reqs[r].stored.payment.status IN
       TransitionCommit(r, targetStatus, expectedVersion,
          "Payment was modified by another request. Please refetch and retry.",
          canTransition(currentStatus, targetStatus),
          getTransitionBlockReason(currentStatus, targetStatus))
  /\ UNCHANGED <<backend, created, started>>
  /\ UNCHANGED <<firstCall, payoutVars, bufferVars, sseVars, storeVars, lifecycleVars>>

(***************************************************************************)
(* POST /api/payments/:id/submit and /cancel: no await between the read    *)
(* of the store and the write.                                             *)
(***************************************************************************)
\* the body of the submit and cancel handlers: `permitted` and `reason` are
\* the handler's verdict on the stored status
WriteIfPermitted(r, op, id, status, permitted, reason) ==
  LET looked == Lookup(r, op, id, "check")
      stored == looked[r].stored
  IN IF looked[r].pc = "done"
       THEN reqs' = looked /\ UNCHANGED <<paymentStore, clock>>
     ELSE IF ~permitted
       THEN /\ reqs' = [looked EXCEPT ![r].pc = "done", ![r].code = 422,
                          ![r].error = "INVALID_TRANSITION", ![r].message = reason]
            /\ UNCHANGED <<paymentStore, clock>>
     ELSE /\ paymentStore' = WritePayment(id, stored, status)
          /\ clock' = clock + 1
          /\ reqs' = [looked EXCEPT ![r].pc = "done", ![r].code = 200,
                        ![r].data = Updated(stored, status)]

StatusOf(id) == IF id \in DOMAIN paymentStore THEN paymentStore[id].payment.status ELSE ""

\* part_014 lines 20-50 and part_004 lines 443-487
Submit(r, id) ==
  /\ Receive(r)
  /\ WriteIfPermitted(r, "submit", id, "submitted", StatusOf(id) = "draft",
                      "Cannot submit: current status is \"" \o StatusOf(id) \o "\"")
  /\ UNCHANGED <<backend, idempotencyKeyStore, created>>
  /\ UNCHANGED <<firstCall, payoutVars, bufferVars, sseVars, storeVars, lifecycleVars>>

\* src/app/api/payments/[id]/cancel/route.ts
RouteCancel(r, id) ==
  /\ backend = "route"
  /\ Receive(r)
  /\ WriteIfPermitted(r, "cancel", id, "canceled", StatusOf(id) \in CANCELABLE_STATUSES,
                      "Cannot cancel payment in \"" \o StatusOf(id) \o "\" status")
  /\ UNCHANGED <<backend, idempotencyKeyStore, created>>
  /\ UNCHANGED <<firstCall, payoutVars, bufferVars, sseVars, storeVars, lifecycleVars>>

\* part_004 lines 494-540
MswCancel(r, id) ==
  /\ backend = "msw"
  /\ Receive(r)
  /\ WriteIfPermitted(r, "cancel", id, "canceled", canTransition(StatusOf(id), "canceled"),
                      getTransitionBlockReason(StatusOf(id), "canceled"))
  /\ UNCHANGED <<backend, idempotencyKeyStore, created>>
  /\ UNCHANGED <<firstCall, payoutVars, bufferVars, sseVars, storeVars, lifecycleVars>>

(***************************************************************************)
(* POST /api/payments/:id/simulate                                         *)
(***************************************************************************)
Outcomes == {"succeed", "fail", "require_action", "other"}

\* switch (body.outcome)
OutcomeTarget(outcome) ==
  CASE outcome = "succeed" -> "succeeded"
    [] outcome = "fail" -> "failed"
    [] outcome = "require_action" -> "requires_action"
    [] OTHER -> ""

\* both backends, up to `await request.json()`
SimulateReceive(r, id) ==
  /\ Receive(r)
  /\ reqs' = Lookup(r, "simulate", id, "body")
  /\ UNCHANGED <<backend, paymentStore, idempotencyKeyStore, created, clock>>
  /\ UNCHANGED <<firstCall, payoutVars, bufferVars, sseVars, storeVars, lifecycleVars>>

\* the handler after `await request.json()`; `allowed` and `reason` are the
\* backend's verdict on the transition to the outcome's status
SimulateCommit(r, outcome, allowed, reason) ==
  LET stored == reqs[r].stored
      targetStatus == OutcomeTarget(outcome)
      read == [reqs EXCEPT ![r].outcome = outcome]
  IN IF targetStatus = ""
       THEN /\ reqs' = [read EXCEPT ![r].pc = "done", ![r].code = 400,
                           ![r].error = "INVALID_OUTCOME",
                           ![r].message = "Outcome must be: succeed, fail, or require_action"]
            /\ UNCHANGED <<paymentStore, clock>>
     ELSE IF ~allowed
       THEN /\ reqs' = [read EXCEPT ![r].pc = "done", ![r].code = 422,
                           ![r].error = "INVALID_TRANSITION", ![r].message = reason]
            /\ UNCHANGED <<paymentStore, clock>>
     ELSE /\ paymentStore' = WritePayment(reqs[r].id, stored, targetStatus)
          /\ clock' = clock + 1
          /\ reqs' = [read EXCEPT ![r].pc = "done", ![r].code = 200,
                         ![r].data = Updated(stored, targetStatus)]

\* src/app/api/payments/[id]/simulate/route.ts lines 35-70: the outcome is
\* written without consulting a transition table
RouteSimulateResume(r, outcome) ==
  /\ backend = "route"
  /\ reqs[r].pc = "body" /\ reqs[r].op = "simulate"
  /\ SimulateCommit(r, outcome, TRUE, "")
  /\ UNCHANGED <<backend, idempotencyKeyStore, created, started>>
  /\ UNCHANGED <<firstCall, payoutVars, bufferVars, sseVars, storeVars, lifecycleVars>>

\* part_004 lines 566-629
MswSimulateResume(r, outcome) ==
  /\ backend = "msw"
  /\ reqs[r].pc = "body" /\ reqs[r].op = "simulate"
  /\ LET currentStatus == reqs[r].stored.payment.status IN
       SimulateCommit(r, outcome,
          canTransition(currentStatus, OutcomeTarget(outcome)),
          getTransitionBlockReason(currentStatus, OutcomeTarget(outcome)))
  /\ UNCHANGED <<backend, idempotencyKeyStore, created, started>>
  /\ UNCHANGED <<firstCall, payoutVars, bufferVars, sseVars, storeVars, lifecycleVars>>

(***************************************************************************)
(* Payout batches: src/lib/types/payout.ts, src/lib/api/client.ts,         *)
(* part_005.                                                               *)
(***************************************************************************)
PayoutStatuses ==
  {"pending", "processing", "in_transit", "settled", "partially_settled",
   "failed", "returned", "requires_reconciliation"}

PAYOUT_TRANSITIONS ==
  [from \in PayoutStatuses |->
     CASE from = "pending" -> <<"processing", "failed">>
       [] from = "processing" -> <<"in_transit", "failed", "requires_reconciliation">>
       [] from = "in_transit" ->
            <<"settled", "partially_settled", "failed", "returned", "requires_reconciliation">>
       [] from = "settled" -> <<>>
       [] from = "partially_settled" -> <<"settled", "requires_reconciliation">>
       [] from = "failed" -> <<>>
       [] from = "returned" -> <<>>
       [] from = "requires_reconciliation" ->
            <<"settled", "partially_settled", "failed", "returned">>]

canTransitionPayout(from, to) == to \in SeqToSet(PAYOUT_TRANSITIONS[from])

\* the PayoutBatch state graph of the specification
PayoutGraph ==
  {<<"pending", "processing">>, <<"pending", "failed">>,
   <<"processing", "in_transit">>, <<"processing", "failed">>,
   <<"processing", "requires_reconciliation">>,
   <<"in_transit", "settled">>, <<"in_transit", "partially_settled">>,
   <<"in_transit", "failed">>, <<"in_transit", "returned">>,
   <<"in_transit", "requires_reconciliation">>,
   <<"partially_settled", "settled">>, <<"partially_settled", "requires_reconciliation">>,
   <<"requires_reconciliation", "settled">>,
   <<"requires_reconciliation", "partially_settled">>,
   <<"requires_reconciliation", "failed">>, <<"requires_reconciliation", "returned">>}

PayoutTerminal == {"settled", "failed", "returned"}

\* the amounts randomBetween(1000, 100000) gave the items of the batch
ItemAmounts == <<1000, 2000, 3000, 4000>>

\* generatePayoutItems: fee = Math.floor(amount * 0.025)
generatePayoutItems ==
  [i \in 1..Len(ItemAmounts) |->
     [status |-> "pending", amount |-> ItemAmounts[i],
      fee |-> (ItemAmounts[i] * 25) \div 1000,
      netAmount |-> ItemAmounts[i] - (ItemAmounts[i] * 25) \div 1000,
      failureCode |-> ""]]

RECURSIVE SumOf(_, _)
\* items.reduce((sum, item) => sum + item[field], 0), over the first n items
SumOf(items, n) ==
  IF n = 0 THEN [amount |-> 0, fee |-> 0, netAmount |-> 0]
  ELSE LET rest == SumOf(items, n - 1) IN
         [amount |-> rest.amount + items[n].amount,
          fee |-> rest.fee + items[n].fee,
          netAmount |-> rest.netAmount + items[n].netAmount]

PayoutSeedId == "payout_seed_1"

\* null
Null == "null"

\* generatePayoutBatch().  Dates are hours from the initialisation of the
\* store, Undefined for null; the handlers run at hour 0.
generatePayoutBatch ==
  LET items == generatePayoutItems
      total == SumOf(items, Len(items))
  IN [id |-> PayoutSeedId, status |-> "pending", attentionLevel |-> "none",
      itemCount |-> Len(items), settledItemCount |-> 0, failedItemCount |-> 0,
      grossAmount |-> total.amount, totalFees |-> total.fee,
      netAmount |-> total.amount - total.fee, settledAmount |-> 0,
      items |-> items, processedAt |-> Undefined, expectedSettlementAt |-> 24,
      settledAt |-> Undefined, failureReason |-> Null,
      reconciliationNotes |-> Null, lastReconciledAt |-> Undefined]

\* items.map(item => ({...item, status, failureCode}))
MarkItems(items, n, first, rest, failureCode) ==
  [i \in 1..Len(items) |->
     IF i <= n THEN [items[i] EXCEPT !.status = first]
     ELSE [items[i] EXCEPT !.status = rest, !.failureCode = failureCode]]

\* the seeded batches of initializePayoutStore(): client.ts lines 481-525
RouteSeeds ==
  LET b == generatePayoutBatch IN
    {[b EXCEPT !.status = "settled", !.processedAt = -96, !.settledAt = -48,
               !.settledItemCount = b.itemCount, !.settledAmount = b.netAmount,
               !.items = MarkItems(b.items, b.itemCount, "settled", "settled", "")],
     [b EXCEPT !.status = "in_transit", !.processedAt = -24, !.expectedSettlementAt = 24],
     [b EXCEPT !.status = "requires_reconciliation", !.attentionLevel = "action_required",
               !.processedAt = -72],
     b}

\* the seeded batches of part_005 lines 172-274
MswSeeds ==
  LET b == generatePayoutBatch IN
    RouteSeeds \cup
    {[b EXCEPT !.status = "in_transit", !.attentionLevel = "warning",
               !.processedAt = -72, !.expectedSettlementAt = -6],
     [b EXCEPT !.status = "partially_settled", !.attentionLevel = "warning",
               !.processedAt = -48, !.failedItemCount = 3,
               !.settledItemCount = b.itemCount - 3,
               !.settledAmount = SumOf(b.items, b.itemCount - 3).netAmount,
               !.items = MarkItems(b.items, b.itemCount - 3, "settled", "failed",
                                   "invalid_account")],
     [b EXCEPT !.status = "failed", !.processedAt = -120,
               !.failureReason = "Bank rejected entire batch: Invalid routing number",
               !.items = MarkItems(b.items, 0, "failed", "failed", "batch_rejected")],
     [b EXCEPT !.status = "processing", !.processedAt = -2]}

SeededBatches(server) == IF server = "route" THEN RouteSeeds ELSE MswSeeds

\* no batch: a request that has read none, a response that carries none
NoBatch == [id |-> ""]

PayoutIdle ==
  [pc |-> "idle", op |-> "", id |-> "", batch |-> NoBatch, outcome |-> "",
   resolvedStatus |-> "", notes |-> "", settledAmount |-> Undefined,
   code |-> 0, error |-> "", data |-> NoBatch]

PayoutIds == {PayoutSeedId, "payout_unknown"}

\* the payout slots as a new request finds them
PayoutFree == [s \in Slots |-> IF payoutReqs[s].pc = "done" THEN PayoutIdle ELSE payoutReqs[s]]

\* a payout request arrives and takes the first free slot
PayoutReceive(r) ==
  /\ PayoutFree[r].pc = "idle"
  /\ \A s \in Slots : s < r => PayoutFree[s].pc # "idle"
  /\ payoutStarted < MaxRequests
  /\ payoutStarted' = payoutStarted + 1

\* const batch = getPayout(id); if (!batch) return 404
PayoutLookup(r, op, id) ==
  LET q == [PayoutIdle EXCEPT !.op = op, !.id = id] IN
    IF id \notin DOMAIN payoutStore
      THEN [q EXCEPT !.pc = "done", !.code = 404, !.error = "NOT_FOUND"]
      ELSE [q EXCEPT !.pc = "body", !.batch = payoutStore[id]]

\* batch.status !== 'requires_reconciliation' && batch.status !== 'partially_settled'
NotReconcilable(batch) ==
  batch.status # "requires_reconciliation" /\ batch.status # "partially_settled"

validResolutions == <<"settled", "failed", "returned", "partially_settled">>

\* setPayout(id, updatedBatch) and the 200 response
PayoutWrite(r, q, updatedBatch) ==
  /\ payoutStore' = MapSet(payoutStore, q.id, updatedBatch)
  /\ payoutReqs' = [payoutReqs EXCEPT ![r] =
                      [q EXCEPT !.pc = "done", !.code = 200, !.data = updatedBatch]]

\* the 4xx responses
PayoutReject(r, q, code, error) ==
  /\ payoutReqs' = [payoutReqs EXCEPT ![r] = [q EXCEPT !.pc = "done", !.code = code, !.error = error]]
  /\ UNCHANGED payoutStore

(***************************************************************************)
(* POST /api/payouts/:id/reconcile                                         *)
(***************************************************************************)
\* part_015 lines 104-125: the status is checked before `await request.json()`
RouteReconcileReceive(r, id) ==
  /\ backend = "route"
  /\ PayoutReceive(r)
  /\ LET q == PayoutLookup(r, "reconcile", id) IN
       IF q.pc = "body" /\ NotReconcilable(q.batch)
         THEN payoutReqs' = [PayoutFree EXCEPT ![r] = [q EXCEPT !.pc = "done", !.code = 422, !.error = "INVALID_STATE"]]
         ELSE payoutReqs' = [PayoutFree EXCEPT ![r] = q]
  /\ UNCHANGED <<payoutStore, payVars, bufferVars, sseVars, storeVars, lifecycleVars>>

\* part_005 lines 410-424: only the lookup precedes `await request.json()`
MswReconcileReceive(r, id) ==
  /\ backend = "msw"
  /\ PayoutReceive(r)
  /\ payoutReqs' = [PayoutFree EXCEPT ![r] = PayoutLookup(r, "reconcile", id)]
  /\ UNCHANGED <<payoutStore, payVars, bufferVars, sseVars, storeVars, lifecycleVars>>

\* part_015 lines 126-152 and part_005 lines 443-468: the update is built
\* from the batch read before the await
ReconcileCommit(r, q) ==
  IF q.resolvedStatus \notin SeqToSet(validResolutions)
    THEN PayoutReject(r, q, 400, "INVALID_STATUS")
    ELSE PayoutWrite(r, q,
           [q.batch EXCEPT !.status = q.resolvedStatus, !.attentionLevel = "none",
                           !.reconciliationNotes = q.notes, !.lastReconciledAt = 0,
                           !.settledAt = IF q.resolvedStatus = "settled" THEN 0 ELSE @,
                           !.settledAmount = IF q.settledAmount # Undefined
                                               THEN q.settledAmount ELSE @])

ReconcileBody(r, resolvedStatus, notes, settledAmount) ==
  [payoutReqs[r] EXCEPT !.resolvedStatus = resolvedStatus, !.notes = notes,
                        !.settledAmount = settledAmount]

RouteReconcileResume(r, resolvedStatus, notes, settledAmount) ==
  /\ backend = "route"
  /\ payoutReqs[r].pc = "body" /\ payoutReqs[r].op = "reconcile"
  /\ ReconcileCommit(r, ReconcileBody(r, resolvedStatus, notes, settledAmount))
  /\ UNCHANGED <<payoutStarted, payVars, bufferVars, sseVars, storeVars, lifecycleVars>>

MswReconcileResume(r, resolvedStatus, notes, settledAmount) ==
  /\ backend = "msw"
  /\ payoutReqs[r].pc = "body" /\ payoutReqs[r].op = "reconcile"
  /\ LET q == ReconcileBody(r, resolvedStatus, notes, settledAmount) IN
       IF NotReconcilable(q.batch)
         THEN PayoutReject(r, q, 422, "INVALID_STATE")
         ELSE ReconcileCommit(r, q)
  /\ UNCHANGED <<payoutStarted, payVars, bufferVars, sseVars, storeVars, lifecycleVars>>

(***************************************************************************)
(* POST /api/payouts/:id/simulate                                          *)
(***************************************************************************)
Min(a, b) == IF a < b THEN a ELSE b

\* switch (body.outcome): the updatedBatch of one outcome
SimulatedBatch(batch, outcome) ==
  LET failCount == Min(3, batch.itemCount \div 3)
      kept == batch.itemCount - failCount
  IN CASE outcome = "progress" ->
            IF batch.status = "pending"
              THEN [batch EXCEPT !.status = "processing", !.processedAt = 0]
            ELSE IF batch.status = "processing"
              THEN [batch EXCEPT !.status = "in_transit"]
            ELSE batch
       [] outcome = "settle" ->
            [batch EXCEPT !.status = "settled", !.settledAt = 0,
                          !.settledItemCount = batch.itemCount,
                          !.settledAmount = batch.netAmount,
                          !.items = [i \in 1..Len(batch.items) |->
                                       [batch.items[i] EXCEPT !.status = "settled"]]]
       [] outcome = "partial_fail" ->
            [batch EXCEPT !.status = "partially_settled", !.attentionLevel = "warning",
                          !.failedItemCount = failCount, !.settledItemCount = kept,
                          !.items = MarkItems(batch.items, kept, "settled", "failed",
                                              "transfer_failed"),
                          !.settledAmount = SumOf(batch.items, Min(kept, Len(batch.items))).netAmount]
       [] outcome = "fail" ->
            [batch EXCEPT !.status = "failed",
                          !.failureReason = "Bank rejected batch: Account validation failed",
                          !.items = MarkItems(batch.items, 0, "failed", "failed",
                                              "batch_rejected")]
       [] outcome = "delay" ->
            [batch EXCEPT !.attentionLevel = "warning", !.expectedSettlementAt = 48]
       [] outcome = "need_recon" ->
            [batch EXCEPT !.status = "requires_reconciliation",
                          !.attentionLevel = "action_required"]
       [] OTHER -> batch

PayoutOutcomes == {"progress", "settle", "partial_fail", "fail", "delay", "need_recon", "other"}

\* both backends, up to `await request.json()`
PayoutSimulateReceive(r, id) ==
  /\ PayoutReceive(r)
  /\ payoutReqs' = [PayoutFree EXCEPT ![r] = PayoutLookup(r, "simulate", id)]
  /\ UNCHANGED <<payoutStore, payVars, bufferVars, sseVars, storeVars, lifecycleVars>>

\* src/app/api/payouts/[id]/simulate/route.ts lines 35-103
RoutePayoutSimulateResume(r, outcome) ==
  /\ backend = "route"
  /\ payoutReqs[r].pc = "body" /\ payoutReqs[r].op = "simulate"
  /\ LET q == [payoutReqs[r] EXCEPT !.outcome = outcome] IN
       IF outcome \notin {"progress", "settle", "partial_fail", "fail", "need_recon"}
         THEN PayoutReject(r, q, 400, "INVALID_OUTCOME")
         ELSE PayoutWrite(r, q, SimulatedBatch(q.batch, outcome))
  /\ UNCHANGED <<payoutStarted, payVars, bufferVars, sseVars, storeVars, lifecycleVars>>

\* part_005 lines 492-570: no default case, every outcome ends in a write
MswPayoutSimulateResume(r, outcome) ==
  /\ backend = "msw"
  /\ payoutReqs[r].pc = "body" /\ payoutReqs[r].op = "simulate"
  /\ LET q == [payoutReqs[r] EXCEPT !.outcome = outcome] IN
       PayoutWrite(r, q, SimulatedBatch(q.batch, outcome))
  /\ UNCHANGED <<payoutStarted, payVars, bufferVars, sseVars, storeVars, lifecycleVars>>

ResolvedStatuses == {"settled", "failed", "returned", "partially_settled", "pending"}

\* body.notes: absent, empty, or a note
NotesGiven == {"undefined", "", "Confirmed with the bank"}

\* body.settledAmount: absent, below the net amount, above it
SettledAmounts == {Undefined, 5000, 12000}

(***************************************************************************)
(* useBackpressureBuffer: src/lib/hooks/use-backpressure-buffer.ts         *)
(***************************************************************************)
MaxCapacity == 2

MaxPushes == 5

MaxTime == 6

\* the flushIntervalMs option
flushIntervalMs == 2

\* flushTimeoutRef.current === null
NoTimeout == -1

Max(a, b) == IF a > b THEN a ELSE b

\* flush without the swap (line 76 left out): the delivered items stay queued
flushWithoutSwap(items, st) ==
  IF Len(items) = 0
    THEN /\ bufferRef' = items
         /\ state' = st
         /\ UNCHANGED <<lastFlushRef, delivered, run>>
    ELSE /\ bufferRef' = items
         /\ delivered' = Append(delivered, items)
         /\ lastFlushRef' = now
         /\ state' = [st EXCEPT !.bufferSize = 0, !.lastFlushAt = now,
                                !.isThrottling = FALSE]
         /\ run' = [start |-> Len(pushes'), dropped |-> droppedCountRef', reset |-> FALSE]

\* flush() on the queue `items`, `st` the React state so far: lines 72-89.
\* The sink gets the swapped-out array; an empty queue changes nothing.
flush(items, st) ==
  IF Len(items) = 0
    THEN /\ bufferRef' = items
         /\ state' = st
         /\ UNCHANGED <<lastFlushRef, delivered, run>>
    ELSE /\ bufferRef' = <<>>
         /\ delivered' = Append(delivered, items)
         /\ lastFlushRef' = now
         /\ state' = [st EXCEPT !.bufferSize = 0, !.lastFlushAt = now,
                                !.isThrottling = FALSE]
         /\ run' = [start |-> Len(pushes'), dropped |-> droppedCountRef', reset |-> FALSE]

\* scheduleFlush without the setTimeout (lines 101-104 left out)
scheduleFlushWithoutTimeout(items, st) ==
  LET delay == Max(0, flushIntervalMs - (now - lastFlushRef)) IN
    IF flushTimeoutRef # NoTimeout
      THEN /\ bufferRef' = items
           /\ state' = st
           /\ UNCHANGED <<flushTimeoutRef, timers, lastFlushRef, delivered, run>>
    ELSE IF delay = 0
      THEN /\ flush(items, st)
           /\ UNCHANGED <<flushTimeoutRef, timers>>
      ELSE /\ bufferRef' = items
           /\ state' = [st EXCEPT !.isThrottling = TRUE]
           /\ UNCHANGED <<flushTimeoutRef, timers, lastFlushRef, delivered, run>>

\* scheduleFlush() with `items` in the queue: lines 91-106
scheduleFlush(items, st) ==
  LET delay == Max(0, flushIntervalMs - (now - lastFlushRef)) IN
    IF flushTimeoutRef # NoTimeout
      THEN /\ bufferRef' = items
           /\ state' = st
           /\ UNCHANGED <<flushTimeoutRef, timers, lastFlushRef, delivered, run>>
    ELSE IF delay = 0
      THEN /\ flush(items, st)
           /\ UNCHANGED <<flushTimeoutRef, timers>>
      ELSE /\ bufferRef' = items
           /\ flushTimeoutRef' = now + delay
           /\ timers' = timers \cup {now + delay}
           /\ state' = [st EXCEPT !.isThrottling = TRUE]
           /\ UNCHANGED <<lastFlushRef, delivered, run>>

\* bufferRef.current.shift()
Shift(items) == IF Len(items) = 0 THEN items ELSE Tail(items)

\* Pushed without the eviction (lines 111-120 left out): a full queue grows
PushedWithoutEviction(items, item) == Append(items, item)

\* the queue after lines 111-123 of push(item)
Pushed(items, item) ==
  Append(IF Len(items) >= maxBufferSize THEN Shift(items) ELSE items, item)

\* push(item): lines 108-134.  The items are numbered in the order pushed.
push ==
  /\ Len(pushes) < MaxPushes
  /\ pushes' = Append(pushes, Len(pushes) + 1)
  /\ droppedCountRef' = IF Len(bufferRef) >= maxBufferSize
                          THEN droppedCountRef + 1 ELSE droppedCountRef
  /\ scheduleFlush(Pushed(bufferRef, Len(pushes) + 1),
                   [state EXCEPT !.droppedCount = IF Len(bufferRef) >= maxBufferSize
                                                    THEN droppedCountRef + 1 ELSE @,
                                 !.bufferSize = Len(Pushed(bufferRef, Len(pushes) + 1))])
  /\ UNCHANGED <<maxBufferSize, now, mounted>>
  /\ UNCHANGED <<payVars, payoutVars, sseVars, storeVars, lifecycleVars>>

\* the callback of setTimeout: lines 101-104
FlushTimeout ==
  /\ \E due \in timers :
       /\ now >= due
       /\ timers' = timers \ {due}
  /\ flushTimeoutRef' = NoTimeout
  /\ UNCHANGED <<maxBufferSize, droppedCountRef, now, mounted, pushes>>
  /\ flush(bufferRef, state)
  /\ UNCHANGED <<payVars, payoutVars, sseVars, storeVars, lifecycleVars>>

\* forceFlush without the cancellation (lines 144-147 left out)
forceFlushWithoutCancel ==
  /\ UNCHANGED <<timers, flushTimeoutRef>>
  /\ UNCHANGED <<maxBufferSize, droppedCountRef, now, mounted, pushes>>
  /\ flush(bufferRef, state)
  /\ UNCHANGED <<payVars, payoutVars, sseVars, storeVars, lifecycleVars>>

\* forceFlush(): lines 143-149
forceFlush ==
  /\ timers' = IF flushTimeoutRef # NoTimeout THEN timers \ {flushTimeoutRef} ELSE timers
  /\ flushTimeoutRef' = NoTimeout
  /\ UNCHANGED <<maxBufferSize, droppedCountRef, now, mounted, pushes>>
  /\ flush(bufferRef, state)
  /\ UNCHANGED <<payVars, payoutVars, sseVars, storeVars, lifecycleVars>>

\* resetDroppedCount(): lines 151-154
resetDroppedCount ==
  /\ droppedCountRef' = 0
  /\ state' = [state EXCEPT !.droppedCount = 0]
  /\ run' = [run EXCEPT !.reset = TRUE]
  /\ UNCHANGED <<maxBufferSize, bufferRef, flushTimeoutRef, lastFlushRef, now, timers,
                 mounted, delivered, pushes>>
  /\ UNCHANGED <<payVars, payoutVars, sseVars, storeVars, lifecycleVars>>

\* the cleanup of the effect, on unmount: lines 157-163.  The timeout is
\* cleared; flushTimeoutRef keeps its value.
Unmount ==
  /\ mounted
  /\ mounted' = FALSE
  /\ timers' = IF flushTimeoutRef # NoTimeout THEN timers \ {flushTimeoutRef} ELSE timers
  /\ UNCHANGED <<maxBufferSize, bufferRef, droppedCountRef, flushTimeoutRef, lastFlushRef,
                 state, now, delivered, pushes, run>>
  /\ UNCHANGED <<payVars, payoutVars, sseVars, storeVars, lifecycleVars>>

\* a millisecond passes
Tick ==
  /\ now < MaxTime \/ \E due \in timers : now < due
  /\ now' = now + 1
  /\ UNCHANGED <<maxBufferSize, bufferRef, droppedCountRef, flushTimeoutRef, lastFlushRef,
                 state, timers, mounted, delivered, pushes, run>>
  /\ UNCHANGED <<payVars, payoutVars, sseVars, storeVars, lifecycleVars>>

(***************************************************************************)
(* useSSE: src/unnamed/part_000                                            *)
(***************************************************************************)
\* the maxReconnectAttempts option
maxReconnectAttempts == 2

MaxManual == 1

MaxMessages == 4

MaxSequence == 6

\* the timeouts the model lets the hook set
MaxTimers == maxReconnectAttempts + 1 + MaxManual

\* lastSequenceRef.current === null
NoSequence == -1

\* eventSourceRef.current === null
NoSource == 0

\* eventSource.close(), of the source numbered id if there is one
Close(srcs, id) == IF id = NoSource THEN srcs ELSE [srcs EXCEPT ![id] = "closed"]

\* connect(), `st` the React state so far: lines 93-183.  The source the ref
\* names is closed, the state callback runs, a new EventSource is made.
connect(st) ==
  /\ sources' = Append(Close(sources, eventSourceRef), "connecting")
  /\ eventSourceRef' = Len(sources) + 1
  /\ sseState' = [st EXCEPT !.connectionState = "connecting"]

\* eventSource.onopen: lines 106-113
SseOpen(id) ==
  /\ sources[id] = "connecting"
  /\ sources' = [sources EXCEPT ![id] = "open"]
  /\ sseState' = [sseState EXCEPT !.connectionState = "connected",
                                  !.reconnectAttempt = 0, !.error = ""]
  /\ sseLog' = [sseLog EXCEPT !.opened = TRUE]
  /\ UNCHANGED <<lastSequenceRef, reconnectTimeoutRef, eventSourceRef, sseTimers, sseMounted>>
  /\ UNCHANGED <<payVars, payoutVars, bufferVars, storeVars, lifecycleVars>>

\* the missed count in which a gap counts the message that ends it too
MissedWithArrival(missedEvents, last, sequence) ==
  IF last # NoSequence /\ sequence > last + 1
    THEN missedEvents + (sequence - last)
    ELSE missedEvents

\* a gap counted as one missed event, whatever its width
MissedOncePerGap(missedEvents, last, sequence) ==
  IF last # NoSequence /\ sequence > last + 1 THEN missedEvents + 1 ELSE missedEvents

\* the missed count after a message of `sequence`: lines 122-128
Missed(missedEvents, last, sequence) ==
  IF last # NoSequence /\ sequence > last + 1
    THEN missedEvents + (sequence - last - 1)
    ELSE missedEvents

\* eventSource.onmessage with a message that parses: lines 115-137
SseMessage(id, sequence) ==
  /\ sources[id] = "open"
  /\ sseLog.messages < MaxMessages
  /\ sseState' = [sseState EXCEPT
                    !.missedEvents = Missed(@, lastSequenceRef, sequence),
                    !.lastEventAt = sseLog.messages + 1]
  /\ lastSequenceRef' = sequence
  /\ sseLog' = [sseLog EXCEPT !.messages = @ + 1, !.sequence = sequence,
                               !.fed = Append(@, sequence)]
  /\ UNCHANGED <<reconnectTimeoutRef, eventSourceRef, sources, sseTimers, sseMounted>>
  /\ UNCHANGED <<payVars, payoutVars, bufferVars, storeVars, lifecycleVars>>

\* eventSource.onerror: lines 143-175
SseError(id) ==
  LET nextAttempt == sseState.reconnectAttempt + 1 IN
    /\ sources[id] \in {"connecting", "open"}
    /\ sources' = [sources EXCEPT ![id] = "closed"]
    /\ eventSourceRef' = NoSource
    /\ IF nextAttempt > maxReconnectAttempts
         THEN /\ sseState' = [sseState EXCEPT !.connectionState = "error",
                                !.error = "Failed to reconnect after "
                                            \o ToString(maxReconnectAttempts) \o " attempts",
                                !.reconnectAttempt = nextAttempt]
              /\ UNCHANGED <<reconnectTimeoutRef, sseTimers, sseLog>>
         ELSE /\ sseLog.scheduled < MaxTimers
              /\ reconnectTimeoutRef' = sseLog.scheduled + 1
              /\ sseTimers' = sseTimers \cup {sseLog.scheduled + 1}
              /\ sseLog' = [sseLog EXCEPT !.scheduled = @ + 1]
              /\ sseState' = [sseState EXCEPT !.connectionState = "disconnected",
                                              !.reconnectAttempt = nextAttempt]
    /\ UNCHANGED <<lastSequenceRef, sseMounted>>
    /\ UNCHANGED <<payVars, payoutVars, bufferVars, storeVars, lifecycleVars>>

\* the callback of the reconnect timeout: lines 165-167
ReconnectTimer(t) ==
  /\ t \in sseTimers
  /\ sseTimers' = sseTimers \ {t}
  /\ connect(sseState)
  /\ UNCHANGED <<lastSequenceRef, reconnectTimeoutRef, sseMounted, sseLog>>
  /\ UNCHANGED <<payVars, payoutVars, bufferVars, storeVars, lifecycleVars>>

\* reconnect(): lines 186-195
reconnect ==
  /\ sseMounted
  /\ sseLog.manual < MaxManual
  /\ sseLog' = [sseLog EXCEPT !.manual = @ + 1]
  /\ lastSequenceRef' = NoSequence
  /\ connect([sseState EXCEPT !.reconnectAttempt = 0, !.error = "", !.missedEvents = 0])
  /\ UNCHANGED <<reconnectTimeoutRef, sseTimers, sseMounted>>
  /\ UNCHANGED <<payVars, payoutVars, bufferVars, storeVars, lifecycleVars>>

\* the cleanup of the effect: lines 209-218
Teardown ==
  /\ sseMounted
  /\ sseMounted' = FALSE
  /\ sseTimers' = sseTimers \ {reconnectTimeoutRef}
  /\ reconnectTimeoutRef' = NoTimeout
  /\ sources' = Close(sources, eventSourceRef)
  /\ eventSourceRef' = NoSource
  /\ UNCHANGED <<sseState, lastSequenceRef, sseLog>>
  /\ UNCHANGED <<payVars, payoutVars, bufferVars, storeVars, lifecycleVars>>

\* the hook after its first render and the first run of its effect with
\* enabled = true: connect() has made the first EventSource
SseConnecting ==
  /\ sseState = [connectionState |-> "connecting", lastEventAt |-> 0,
                 reconnectAttempt |-> 0, missedEvents |-> 0, error |-> ""]
  /\ lastSequenceRef = NoSequence
  /\ reconnectTimeoutRef = NoTimeout
  /\ eventSourceRef = 1
  /\ sources = <<"connecting">>
  /\ sseTimers = {}
  /\ sseMounted = TRUE
  /\ sseLog = [scheduled |-> 0, manual |-> 0, messages |-> 0, sequence |-> NoSequence,
               opened |-> FALSE, fed |-> <<>>]

NextSSE ==
  \/ \E id \in DOMAIN sources : SseOpen(id)
  \/ \E id \in DOMAIN sources, sequence \in 1..MaxSequence : SseMessage(id, sequence)
  \/ \E id \in DOMAIN sources : SseError(id)
  \/ \E t \in sseTimers : ReconnectTimer(t)
  \/ reconnect
  \/ Teardown

(***************************************************************************)
(* IdempotencyStore: src/unnamed/part_007                                  *)
(***************************************************************************)
\* the ttlMs the store was constructed with
ttlMs == 2

MaxStoreTime == 4

StoreKeys == {"idem_a", "idem_b"}

RequestHashes == {"{\"amount\":1000}", "{\"amount\":2000}"}

StoreResults == {"pay_1", "pay_2"}

\* no check has returned yet
\* (`at` is not part of the result: it records Date.now() of the call)
NotChecked == [type |-> "", key |-> "", originalResult |-> "", message |-> "", at |-> 0]

\* Map.prototype.delete
MapDelete(map, k) == [x \in (DOMAIN map) \ {k} |-> map[x]]

\* an entry counted as expired from the instant its age reaches ttlMs
ExpiredAtTtl(entry) == storeNow - entry.createdAt >= ttlMs

\* Date.now() - entry.createdAt > this.ttlMs
Expired(entry) == storeNow - entry.createdAt > ttlMs

\* check(key, requestHash): lines 81-105
check(key, requestHash) ==
  /\ IF key \notin DOMAIN store
       THEN /\ checked' = [NotChecked EXCEPT !.type = "new", !.key = key, !.at = storeNow]
            /\ UNCHANGED store
     ELSE IF Expired(store[key])
       THEN /\ store' = MapDelete(store, key)
            /\ checked' = [NotChecked EXCEPT !.type = "new", !.key = key, !.at = storeNow]
     ELSE IF store[key].requestHash # requestHash
       THEN /\ checked' = [NotChecked EXCEPT !.type = "conflict",
                 !.message = "Idempotency key already used with different request parameters",
                 !.at = storeNow]
            /\ UNCHANGED store
     ELSE /\ checked' = [NotChecked EXCEPT !.type = "duplicate",
                           !.originalResult = store[key].result, !.at = storeNow]
          /\ UNCHANGED store
  /\ UNCHANGED storeNow
  /\ UNCHANGED <<payVars, payoutVars, bufferVars, sseVars, lifecycleVars>>

\* store_result(key, requestHash, result): lines 110-116
store_result(key, requestHash, result) ==
  /\ store' = MapSet(store, key,
                     [result |-> result, requestHash |-> requestHash, createdAt |-> storeNow])
  /\ UNCHANGED <<storeNow, checked>>
  /\ UNCHANGED <<payVars, payoutVars, bufferVars, sseVars, lifecycleVars>>

\* cleanup(): lines 121-133
cleanup ==
  /\ store' = [k \in {x \in DOMAIN store : ~Expired(store[x])} |-> store[k]]
  /\ UNCHANGED <<storeNow, checked>>
  /\ UNCHANGED <<payVars, payoutVars, bufferVars, sseVars, lifecycleVars>>

\* a millisecond passes
StoreTick ==
  /\ storeNow < MaxStoreTime
  /\ storeNow' = storeNow + 1
  /\ UNCHANGED <<store, checked>>
  /\ UNCHANGED <<payVars, payoutVars, bufferVars, sseVars, lifecycleVars>>

\* new IdempotencyStore(ttlMs)
StoreEmpty ==
  /\ store = EmptyMap
  /\ storeNow = 0
  /\ checked = NotChecked

NextStore ==
  \/ \E key \in StoreKeys, h \in RequestHashes : check(key, h)
  \/ \E key \in StoreKeys, h \in RequestHashes, result \in StoreResults :
       store_result(key, h, result)
  \/ cleanup
  \/ StoreTick

(***************************************************************************)
(* Calls of the payment legality functions.                                *)
(***************************************************************************)
NotAsked == [fn |-> "", from |-> "", to |-> "", legal |-> FALSE, reason |-> ""]

Others == UNCHANGED <<payVars, payoutVars, bufferVars, sseVars, storeVars>>

AskCanTransition(from, to) ==
  /\ asked' = [NotAsked EXCEPT !.fn = "canTransition", !.from = from, !.to = to,
                               !.legal = canTransition(from, to)]
  /\ Others

AskCanTransitionPayment(from, to) ==
  /\ asked' = [NotAsked EXCEPT !.fn = "canTransitionPayment", !.from = from, !.to = to,
                               !.legal = canTransitionPayment(from, to)]
  /\ Others

AskTransitionBlockReason(from, to) ==
  /\ asked' = [NotAsked EXCEPT !.fn = "getTransitionBlockReason", !.from = from, !.to = to,
                               !.reason = getTransitionBlockReason(from, to)]
  /\ Others

NextLifecycle ==
  \E from \in PaymentStatuses, to \in PaymentStatuses :
    \/ AskCanTransition(from, to)
    \/ AskCanTransitionPayment(from, to)
    \/ AskTransitionBlockReason(from, to)

(***************************************************************************)
(* Initial states and specifications.                                      *)
(***************************************************************************)
ExpectedVersions == {Undefined, 1, 2}

\* the stores after initializePaymentStore(), the seeded payment in `status`
PaymentsAt(status) ==
  /\ paymentStore = initializePaymentStore(status)
  /\ idempotencyKeyStore = EmptyMap
  /\ reqs = [r \in Slots |-> Idle]
  /\ created = 0
  /\ clock = 0
  /\ started = 0
  /\ firstCall = EmptyMap

\* the payout store after initializePayoutStore(), holding the seeded `batch`
PayoutsAt(batch) ==
  /\ payoutStore = MapSet(EmptyMap, batch.id, batch)
  /\ payoutReqs = [r \in Slots |-> PayoutIdle]
  /\ payoutStarted = 0

\* the hook after its first render with maxBufferSize = capacity; Date.now()
\* is far more than one flush interval past lastFlushRef = 0
BufferWith(capacity) ==
  /\ maxBufferSize = capacity
  /\ bufferRef = <<>>
  /\ droppedCountRef = 0
  /\ flushTimeoutRef = NoTimeout
  /\ lastFlushRef = 0
  /\ state = [bufferSize |-> 0, droppedCount |-> 0, isThrottling |-> FALSE,
              lastFlushAt |-> NoTimeout]
  /\ now = flushIntervalMs
  /\ timers = {}
  /\ mounted = TRUE
  /\ delivered = <<>>
  /\ pushes = <<>>
  /\ run = [start |-> 0, dropped |-> 0, reset |-> FALSE]

NextCreate ==
  \E r \in Slots :
    \/ \E key \in Keys : RouteCreateReceive(r, key)
    \/ \E body \in Bodies : RouteCreateResume(r, body)
    \/ \E key \in Keys : MswCreateReceive(r, key)
    \/ \E body \in Bodies : MswCreateResume(r, body)

\* the endpoints addressed to one payment
NextMutate ==
  \E r \in Slots :
    \/ \E id \in PaymentIds : TransitionReceive(r, id)
    \/ \E t \in PaymentStatuses, v \in ExpectedVersions : RouteTransitionResume(r, t, v)
    \/ \E t \in PaymentStatuses, v \in ExpectedVersions : MswTransitionResume(r, t, v)
    \/ \E id \in PaymentIds : Submit(r, id)
    \/ \E id \in PaymentIds : RouteCancel(r, id)
    \/ \E id \in PaymentIds : MswCancel(r, id)
    \/ \E id \in PaymentIds : SimulateReceive(r, id)
    \/ \E outcome \in Outcomes : RouteSimulateResume(r, outcome)
    \/ \E outcome \in Outcomes : MswSimulateResume(r, outcome)

NextPayments == NextCreate \/ NextMutate

\* POST /api/payments with a key that has been used, and the endpoints
\* addressed to the payment created for it
NextReplay ==
  \/ \E r \in Slots :
       \/ RouteCreateReceive(r, KeyClient)
       \/ \E body \in ReplayBodies : RouteCreateResume(r, body)
       \/ MswCreateReceive(r, KeyClient)
       \/ \E body \in ReplayBodies : MswCreateResume(r, body)
  \/ NextMutate

NextPayouts ==
  \E r \in Slots :
    \/ \E id \in PayoutIds : RouteReconcileReceive(r, id)
    \/ \E id \in PayoutIds : MswReconcileReceive(r, id)
    \/ \E s \in ResolvedStatuses, n \in NotesGiven, a \in SettledAmounts :
         RouteReconcileResume(r, s, n, a)
    \/ \E s \in ResolvedStatuses, n \in NotesGiven, a \in SettledAmounts :
         MswReconcileResume(r, s, n, a)
    \/ \E id \in PayoutIds : PayoutSimulateReceive(r, id)
    \/ \E outcome \in PayoutOutcomes : RoutePayoutSimulateResume(r, outcome)
    \/ \E outcome \in PayoutOutcomes : MswPayoutSimulateResume(r, outcome)

NextBuffer ==
  \/ push
  \/ FlushTimeout
  \/ forceFlush
  \/ resetDroppedCount
  \/ Unmount
  \/ Tick

vars == <<payVars, payoutVars, bufferVars, sseVars, storeVars, lifecycleVars>>

\* the payment endpoints, from any seeded status; the payout store and the
\* buffer stay as initialised
Init ==
  /\ backend \in Backends
  /\ \E status \in PaymentStatuses : PaymentsAt(status)
  /\ PayoutsAt(generatePayoutBatch)
  /\ BufferWith(MaxCapacity)
  /\ SseConnecting
  /\ StoreEmpty
  /\ asked = NotAsked

Next == NextPayments

Spec == Init /\ [][Next]_vars

\* POST /api/payments alone
SpecCreate == Init /\ [][NextCreate]_vars

\* the stores after one createPayment(KeyClient, body) answered 201: the
\* state CreateCommit leaves behind from PaymentsAt("draft")
CreatedWith(body, requestHash) ==
  LET payment == [id |-> NewId(1), idempotencyKey |-> KeyClient, status |-> "draft",
                  amount |-> AmountOf(body), updatedAt |-> 1]
  IN /\ paymentStore = MapSet(initializePaymentStore("draft"), NewId(1),
            [payment |-> payment, version |-> 1, idempotencyHash |-> requestHash])
     /\ idempotencyKeyStore = MapSet(EmptyMap, KeyClient,
            [paymentId |-> NewId(1), requestHash |-> requestHash, result |-> payment])
     /\ reqs = [r \in Slots |-> Idle]
     /\ created = 1
     /\ clock = 1
     /\ started = 0
     /\ firstCall = MapSet(EmptyMap, KeyClient, [body |-> body, payment |-> payment])

\* a key that has been used once, by either backend
InitReplay ==
  /\ backend \in Backends
  /\ \E body \in {BodyUsd, BodyMeta} :
       CreatedWith(body, IF backend = "route" THEN JsonStringify(body) ELSE hashRequest(body))
  /\ PayoutsAt(generatePayoutBatch)
  /\ BufferWith(MaxCapacity)
  /\ SseConnecting
  /\ StoreEmpty
  /\ asked = NotAsked

SpecReplay == InitReplay /\ [][NextReplay]_vars

\* the payout endpoints, from any seeded batch
InitPayouts ==
  /\ backend \in Backends
  /\ PaymentsAt("draft")
  /\ \E batch \in SeededBatches(backend) : PayoutsAt(batch)
  /\ BufferWith(MaxCapacity)
  /\ SseConnecting
  /\ StoreEmpty
  /\ asked = NotAsked

SpecPayouts == InitPayouts /\ [][NextPayouts]_vars

\* one buffer, of any capacity from 1
InitBuffer ==
  /\ backend = "route"
  /\ PaymentsAt("draft")
  /\ PayoutsAt(generatePayoutBatch)
  /\ \E capacity \in 1..MaxCapacity : BufferWith(capacity)
  /\ SseConnecting
  /\ StoreEmpty
  /\ asked = NotAsked

SpecBuffer == InitBuffer /\ [][NextBuffer]_vars

\* the buffer when time passes and every timeout that is due fires
SpecBufferFair ==
  InitBuffer /\ [][NextBuffer]_vars /\ WF_vars(Tick) /\ WF_vars(FlushTimeout)

\* one IdempotencyStore
SpecStore == InitBuffer /\ [][NextStore]_vars

\* one stream subscription
SpecSSE == InitBuffer /\ [][NextSSE]_vars

\* the legality functions called on every pair of statuses
InitLifecycle ==
  /\ backend = "route"
  /\ PaymentsAt("draft")
  /\ PayoutsAt(generatePayoutBatch)
  /\ BufferWith(MaxCapacity)
  /\ SseConnecting
  /\ StoreEmpty
  /\ asked = NotAsked

SpecLifecycle == InitLifecycle /\ [][NextLifecycle]_vars

(***************************************************************************)
(* Properties.                                                             *)
(***************************************************************************)
\* slot r's handler resumes from `await request.json()` and returns
Committing(r, op) ==
  reqs[r].pc = "body" /\ reqs[r].op = op /\ reqs'[r].pc = "done"

\* the payments POST /api/payments has created
CreatedIds == {NewId(n) : n \in 1..created}

\* C1: in every step of the payment endpoints (create, transition, submit,
\* cancel, simulate, interleaved at their awaits), a stored payment whose
\* status changes moves along an edge of the payment state graph; a payment
\* that is succeeded, failed or canceled never changes status.
C1_StatusChangesAreEdges ==
  [][\A id \in DOMAIN paymentStore :
       LET from == paymentStore[id].payment.status
           to == paymentStore'[id].payment.status
       IN from # to => <<from, to>> \in PaymentGraph /\ from \notin PaymentTerminal]_vars

\* C2: createPayment calls create at most one payment per idempotency key,
\* and a call that repeats the key and the body of the call that created the
\* payment creates nothing and is answered 200 with that payment's id.
C2_OnePaymentPerKey ==
  [][/\ \A key \in Keys :
          Cardinality({id \in CreatedIds' :
                         paymentStore'[id].payment.idempotencyKey = key}) <= 1
     /\ \A r \in Slots :
          (/\ Committing(r, "create")
           /\ reqs[r].key \in DOMAIN firstCall
           /\ reqs'[r].body = firstCall[reqs[r].key].body)
          => /\ paymentStore' = paymentStore
             /\ created' = created
             /\ reqs'[r].code = 200
             /\ reqs'[r].data.id = firstCall[reqs[r].key].payment.id]_vars

\* a repeated createPayment has been answered with the first call's payment
C2_Witness ==
  \E r \in Slots :
    /\ reqs[r].pc = "done" /\ reqs[r].op = "create" /\ reqs[r].code = 200
    /\ reqs[r].key \in DOMAIN firstCall
    /\ reqs[r].body = firstCall[reqs[r].key].body
    /\ reqs[r].data.id = firstCall[reqs[r].key].payment.id
    /\ created = 1

\* two handlers of `op` that overlapped and have both returned
BothDone(r1, r2, op) ==
  /\ r1 # r2
  /\ reqs[r1].pc = "done" /\ reqs[r1].op = op
  /\ reqs[r2].pc = "done" /\ reqs[r2].op = op

\* the transition handler in slot r wrote a new status
CommittedChange(r) ==
  reqs[r].code = 200 /\ reqs[r].targetStatus # reqs[r].stored.payment.status

\* C3: of two overlapping transitionPayment requests for the same payment
\* that carry the same expectedVersion, at most one commits a status change.
C3_AtMostOneCommits ==
  \A r1, r2 \in Slots :
    (/\ BothDone(r1, r2, "transition")
     /\ reqs[r1].id = reqs[r2].id
     /\ reqs[r1].expectedVersion = reqs[r2].expectedVersion
     /\ reqs[r1].expectedVersion # Undefined)
    => ~(CommittedChange(r1) /\ CommittedChange(r2))

\* the createPayment in slot r was answered duplicate or conflict
DuplicateOrConflict(r) == reqs[r].code \in {200, 422}

RunLength == Len(pushes) - run.start

\* the last n items of a sequence
LastOf(seq, n) == SubSeq(seq, Len(seq) - n + 1, Len(seq))

\* C5: the queue never holds more than maxBufferSize items; a push onto a
\* full queue evicts exactly the oldest entry and raises droppedCount by
\* exactly 1, any other push leaves droppedCount alone; after N pushes with
\* no flush in between the queue holds the min(N, C) most recently pushed
\* items and, unless the count was reset, max(0, N - C) have been dropped.
C5_BoundedDropOldest ==
  [][/\ Len(bufferRef') <= maxBufferSize
     /\ bufferRef' = LastOf(pushes', Min(RunLength', maxBufferSize))
     /\ ~run'.reset => droppedCountRef' - run'.dropped = Max(0, RunLength' - maxBufferSize)
     /\ pushes' # pushes =>
          IF Len(bufferRef) = maxBufferSize
            THEN /\ droppedCountRef' = droppedCountRef + 1
                 /\ bufferRef' = Append(Tail(bufferRef), pushes'[Len(pushes')])
            ELSE droppedCountRef' = droppedCountRef]_vars

\* a burst of maxBufferSize + 2 pushes with no flush: 2 dropped, the rest kept
C5_Witness ==
  /\ RunLength = maxBufferSize + 2
  /\ ~run.reset
  /\ droppedCountRef - run.dropped = 2
  /\ Len(bufferRef) = maxBufferSize
  /\ maxBufferSize = MaxCapacity

\* C6: in every step of the payout endpoints (simulate, reconcile), a batch
\* whose status changes moves along an edge of the PayoutBatch state graph;
\* a settled, failed or returned batch never changes status.
C6_PayoutChangesAreEdges ==
  [][\A id \in DOMAIN payoutStore :
       LET from == payoutStore[id].status
           to == payoutStore'[id].status
       IN from # to => <<from, to>> \in PayoutGraph /\ from \notin PayoutTerminal]_vars

\* C7: a failed or requires_reconciliation batch changes status only in the
\* step in which a reconcilePayout call for it succeeds.
C7_OnlyReconcileMovesStuckBatch ==
  [][\A id \in DOMAIN payoutStore :
       (/\ payoutStore[id].status \in {"failed", "requires_reconciliation"}
        /\ payoutStore'[id].status # payoutStore[id].status)
       => \E r \in Slots :
            /\ payoutReqs[r].pc = "body" /\ payoutReqs[r].op = "reconcile"
            /\ payoutReqs[r].id = id
            /\ payoutReqs'[r].pc = "done" /\ payoutReqs'[r].code = 200]_vars

\* C8: a transitionPayment request for a payment stored in status A, with a
\* target B # A and an expectedVersion absent or equal to the stored version,
\* is applied iff (A, B) is an edge of the payment state graph; otherwise it
\* is answered 422 INVALID_TRANSITION with an explanation and the payment,
\* its version and the idempotency records stay as they are.
C8_AppliedIffEdge ==
  [][\A r \in Slots :
       LET id == reqs[r].id
           A == paymentStore[id].payment.status
           B == reqs'[r].targetStatus
       IN (/\ Committing(r, "transition")
           /\ B # A
           /\ reqs'[r].expectedVersion \in {Undefined, paymentStore[id].version})
          => IF <<A, B>> \in PaymentGraph
               THEN /\ reqs'[r].code = 200
                    /\ paymentStore'[id].payment.status = B
               ELSE /\ reqs'[r].code = 422
                    /\ reqs'[r].error = "INVALID_TRANSITION"
                    /\ reqs'[r].message # ""
                    /\ paymentStore' = paymentStore
                    /\ idempotencyKeyStore' = idempotencyKeyStore]_vars

\* C9: a transitionPayment request whose expectedVersion differs from the
\* stored version is answered 409 CONCURRENT_MODIFICATION and changes
\* nothing; a stored payment's version changes exactly when its status
\* changes, and then by exactly 1.
C9_VersionCountsStatusChanges ==
  [][/\ \A r \in Slots :
          LET id == reqs[r].id IN
            (/\ Committing(r, "transition")
             /\ reqs'[r].expectedVersion # Undefined
             /\ reqs'[r].expectedVersion # paymentStore[id].version)
            => /\ reqs'[r].code = 409
               /\ reqs'[r].error = "CONCURRENT_MODIFICATION"
               /\ paymentStore' = paymentStore
               /\ idempotencyKeyStore' = idempotencyKeyStore
     /\ \A id \in DOMAIN paymentStore :
          IF paymentStore'[id].payment.status # paymentStore[id].payment.status
            THEN paymentStore'[id].version = paymentStore[id].version + 1
            ELSE paymentStore'[id].version = paymentStore[id].version]_vars

\* C10: a transitionPayment request whose targetStatus is the payment's
\* stored status is answered 200, whatever its expectedVersion, and leaves
\* the stored payment (status, version, updatedAt) as it was.
C10_SameStatusIsNoOp ==
  [][\A r \in Slots :
       LET id == reqs[r].id IN
         (/\ Committing(r, "transition")
          /\ reqs'[r].targetStatus = paymentStore[id].payment.status)
         => /\ reqs'[r].code = 200
            /\ paymentStore'[id] = paymentStore[id]]_vars

\* a JSON object as a value: its members whatever their order
JsonValue(members) ==
  { [k |-> members[i].k, kind |-> members[i].kind, n |-> members[i].n, s |-> members[i].s,
     o |-> SeqToSet(members[i].o)] : i \in DOMAIN members }

\* slot r's createPayment returns, its key being one that created a payment
Replaying(r) == Committing(r, "create") /\ reqs[r].key \in DOMAIN firstCall

\* C11: a createPayment call that reuses a key with the body of the call that
\* created the key's payment is answered 200 with the id and the status the
\* first call returned, and changes neither store, whatever was done to the
\* payment in between.
C11_ReplayReturnsOriginal ==
  [][\A r \in Slots :
       (Replaying(r) /\ reqs'[r].body = firstCall[reqs[r].key].body)
       => /\ reqs'[r].code = 200
          /\ reqs'[r].data.id = firstCall[reqs[r].key].payment.id
          /\ reqs'[r].data.status = firstCall[reqs[r].key].payment.status
          /\ paymentStore' = paymentStore
          /\ idempotencyKeyStore' = idempotencyKeyStore
          /\ created' = created]_vars

\* C12: a createPayment call that reuses a key with a body that differs, in a
\* top-level or a nested member, from the body of the call that created the
\* key's payment is answered 422 IDEMPOTENCY_CONFLICT, creates nothing and
\* leaves the payment store and the idempotency records as they were.
C12_DifferingBodyConflicts ==
  [][\A r \in Slots :
       (Replaying(r) /\ JsonValue(reqs'[r].body) # JsonValue(firstCall[reqs[r].key].body))
       => /\ reqs'[r].code = 422
          /\ reqs'[r].error = "IDEMPOTENCY_CONFLICT"
          /\ paymentStore' = paymentStore
          /\ idempotencyKeyStore' = idempotencyKeyStore
          /\ created' = created]_vars

\* the handler of payout slot r returns in this step
PayoutReturns(r, op) ==
  /\ payoutReqs'[r].pc = "done" /\ payoutReqs'[r].op = op
  /\ payoutReqs[r].pc # "done" \/ payoutStarted' # payoutStarted

Reconcilable == {"requires_reconciliation", "partially_settled"}

\* C13: a reconcilePayout call for a stored batch is applied only if the
\* batch's stored status is requires_reconciliation or partially_settled in
\* the step that writes the update; on any other stored status it is answered
\* 422 INVALID_STATE whatever its inputs; a resolvedStatus outside the valid
\* set is answered 400 INVALID_STATUS; a rejected call leaves the store as
\* it was.
C13_ReconcileGated ==
  [][\A r \in Slots :
       LET id == payoutReqs'[r].id
           q == payoutReqs'[r]
       IN (PayoutReturns(r, "reconcile") /\ id \in DOMAIN payoutStore)
          => /\ payoutStore[id].status \notin Reconcilable
                  => q.code = 422 /\ q.error = "INVALID_STATE"
             /\ (/\ payoutStore[id].status \in Reconcilable
                 /\ q.resolvedStatus \notin {"settled", "partially_settled", "failed", "returned"})
                  => q.code = 400 /\ q.error = "INVALID_STATUS"
             /\ q.code # 200 => payoutStore' = payoutStore]_vars

\* notes that are no note: null, absent, empty
NoNote == {Null, "undefined", ""}

\* C14: a reconcilePayout request whose notes are missing or empty is
\* rejected and leaves the store as it was, so every batch that has been
\* reconciled carries non-empty reconciliationNotes.
C14_ReconcileNeedsNote ==
  [][/\ \A r \in Slots :
          (PayoutReturns(r, "reconcile") /\ payoutReqs'[r].notes \in NoNote)
          => payoutReqs'[r].code # 200 /\ payoutStore' = payoutStore
     /\ \A id \in DOMAIN payoutStore' :
          payoutStore'[id].lastReconciledAt # Undefined
          => payoutStore'[id].reconciliationNotes \notin NoNote]_vars

RECURSIVE Flatten(_)
\* the batches of a sequence, concatenated
Flatten(batches) ==
  IF batches = <<>> THEN <<>> ELSE batches[1] \o Flatten(Tail(batches))

\* what has left the hook and what it still holds, in order
Outflow == Flatten(delivered) \o bufferRef

\* C15: the batches handed to the sink, concatenated in delivery order and
\* followed by the queue, are the pushed items without the evicted ones, in
\* push order: the sequence is strictly increasing (the items are numbered
\* as pushed), a push appends its item and removes at most the queue's oldest
\* entry, which it counts as dropped, and no other step changes the sequence.
C15_OrderedOutflow ==
  [][/\ \A i \in 1..Len(Outflow') :
          /\ Outflow'[i] \in 1..Len(pushes')
          /\ i > 1 => Outflow'[i - 1] < Outflow'[i]
     /\ IF pushes' # pushes
          THEN /\ Outflow' = Flatten(delivered)
                               \o Append(IF droppedCountRef' = droppedCountRef + 1
                                            THEN Tail(bufferRef) ELSE bufferRef,
                                          pushes'[Len(pushes')])
               /\ droppedCountRef' \in {droppedCountRef, droppedCountRef + 1}
               /\ Len(Outflow') = Len(Outflow) + 1 - (droppedCountRef' - droppedCountRef)
          ELSE Outflow' = Outflow]_vars

\* two batches have been delivered, an item was dropped, the queue holds one
C15_Witness ==
  /\ Len(delivered) >= 2
  /\ Len(bufferRef) >= 1
  /\ Len(Outflow) < Len(pushes)
  /\ \E i \in 1..Len(delivered) : Len(delivered[i]) >= 2

\* C16: a step that invokes the sink invokes it once, with all the items
\* queued at that moment oldest-first, and leaves the queue empty; flush on
\* an empty queue (from forceFlush or from the timeout) changes neither the
\* queue nor the deliveries; forceFlush flushes in its own step and leaves no
\* timeout pending, so no flush scheduled before it fires after it.
C16_FlushDeliversOnce ==
  [][/\ delivered' # delivered
          => /\ bufferRef' = <<>>
             /\ delivered' = Append(delivered,
                                    IF pushes' # pushes
                                      THEN Pushed(bufferRef, pushes'[Len(pushes')])
                                      ELSE bufferRef)
             /\ Len(delivered'[Len(delivered')]) > 0
     /\ (forceFlush \/ FlushTimeout)
          => IF bufferRef = <<>>
               THEN delivered' = delivered /\ bufferRef' = <<>>
               ELSE delivered' = Append(delivered, bufferRef) /\ bufferRef' = <<>>
     /\ forceFlush => timers' = {} /\ flushTimeoutRef' = NoTimeout]_vars

\* the second batch was delivered less than one flush interval after the
\* first, which only forceFlush does, and no timeout is left pending
C16_Witness ==
  /\ Len(delivered) = 2
  /\ lastFlushRef < 2 * flushIntervalMs
  /\ bufferRef = <<>>
  /\ timers = {}
  /\ flushTimeoutRef = NoTimeout

\* C17: a message with sequence s raises missedEvents by s - last - 1 if
\* lastSequenceRef holds a sequence `last` and s > last + 1, and leaves it
\* alone otherwise; it sets lastSequenceRef to s in either case.  A call of
\* reconnect() sets missedEvents to 0 and clears lastSequenceRef.  No other
\* step changes missedEvents.
C17_GapCountedOnce ==
  [][IF sseLog'.messages = sseLog.messages + 1
       THEN LET s == sseLog'.sequence
                last == lastSequenceRef
            IN /\ lastSequenceRef' = s
               /\ sseState'.missedEvents =
                    IF last # NoSequence /\ s > last + 1
                      THEN sseState.missedEvents + (s - last - 1)
                      ELSE sseState.missedEvents
     ELSE IF sseLog'.manual = sseLog.manual + 1
       THEN sseState'.missedEvents = 0 /\ lastSequenceRef' = NoSequence
     ELSE /\ sseState'.missedEvents = sseState.missedEvents
          /\ lastSequenceRef' = lastSequenceRef]_vars

\* three messages, one gap of one: counted when met, not again by the next
C17_Witness ==
  /\ sseLog.messages = 3
  /\ sseLog.manual = 0
  /\ lastSequenceRef = 4
  /\ sseState.missedEvents = 1

\* an EventSource errors in this step: it was live and the counter rose
ErrorStep == sseState'.reconnectAttempt = sseState.reconnectAttempt + 1

\* C18: an error closes the transport; while reconnectAttempt is below
\* maxReconnectAttempts it raises the counter by one and sets one reconnect
\* timeout, otherwise it enters "error", sets no timeout and leaves the
\* counter alone; timeouts are set by errors only.  If no connection ever
\* opened and reconnect() was never called, at most maxReconnectAttempts
\* timeouts are ever set and none is pending in state "error".  An open sets
\* the state to connected, the counter to 0 and clears the error.
C18_BoundedReconnects ==
  [][/\ sseLog'.manual = 0
          => /\ sseState'.reconnectAttempt > sseState.reconnectAttempt
                  => /\ sseState.reconnectAttempt < maxReconnectAttempts
                     /\ sseState'.reconnectAttempt = sseState.reconnectAttempt + 1
                     /\ Cardinality(sseTimers' \ sseTimers) = 1
                     /\ eventSourceRef' = NoSource
                     /\ \A id \in DOMAIN sources : sources'[id] = "closed"
             /\ sseTimers' \ sseTimers # {} => ErrorStep
             /\ sseState'.connectionState = "error"
                  => /\ sseState'.reconnectAttempt = maxReconnectAttempts
                     /\ sseTimers' = {}
                     /\ eventSourceRef' = NoSource
             /\ ~sseLog'.opened => sseLog'.scheduled <= maxReconnectAttempts
     /\ sseLog'.opened /\ ~sseLog.opened
          => /\ sseState'.connectionState = "connected"
             /\ sseState'.reconnectAttempt = 0
             /\ sseState'.error = ""]_vars

\* C19: once the subscription is torn down no reconnect timeout fires, no
\* EventSource is created and no callback changes the hook's state or
\* refs, whatever errors, timeouts and reconnect() calls came before.
C19_QuietAfterTeardown ==
  [][~sseMounted
       => /\ sseState' = sseState
          /\ sources' = sources
          /\ sseTimers' = sseTimers
          /\ eventSourceRef' = eventSourceRef
          /\ lastSequenceRef' = lastSequenceRef]_vars

\* C20: while the entry stored for a key has not expired it stays in the
\* store with the requestHash and the result it was stored with: a later
\* store_result for that key, whatever its requestHash, overwrites nothing.
C20_StoredOnce ==
  [][\A key \in DOMAIN store :
       ~Expired(store[key])
         => /\ key \in DOMAIN store'
            /\ store'[key].requestHash = store[key].requestHash
            /\ store'[key].result = store[key].result]_vars

\* the entry of `key` exists and is no older than ttlMs
Unexpired(key) == key \in DOMAIN store /\ storeNow - store[key].createdAt <= ttlMs

\* C21: check(key, requestHash) returns "new" exactly when the key has no
\* entry or its entry is older than ttlMs, and the key then has no entry
\* left (so it can be stored again); it returns "duplicate" with the stored
\* result exactly when an unexpired entry has the same requestHash, and
\* "conflict" exactly when an unexpired entry has another requestHash;
\* check leaves every unexpired entry as it was.
C21_CheckClassifies ==
  [][\A key \in StoreKeys, requestHash \in RequestHashes :
       check(key, requestHash)
         => /\ (checked'.type = "new") <=> ~Unexpired(key)
            /\ checked'.type = "new"
                 => checked'.key = key /\ key \notin DOMAIN store'
            /\ (checked'.type = "duplicate")
                 <=> (Unexpired(key) /\ store[key].requestHash = requestHash)
            /\ checked'.type = "duplicate"
                 => checked'.originalResult = store[key].result
            /\ (checked'.type = "conflict")
                 <=> (Unexpired(key) /\ store[key].requestHash # requestHash)
            /\ \A k \in DOMAIN store :
                 Unexpired(k) => k \in DOMAIN store' /\ store'[k] = store[k]]_vars

\* check answered "duplicate" for an entry whose age is exactly ttlMs
C21_Witness ==
  /\ checked.type = "duplicate"
  /\ checked.originalResult = "pay_2"
  /\ DOMAIN store = {"idem_a"}
  /\ store["idem_a"].createdAt > 0
  /\ checked.at = store["idem_a"].createdAt + ttlMs

\* C22: a createPayment call that reuses a key with a body holding the
\* members of the first call's body, with the same values, in another order
\* is answered 200 as a duplicate, never 422, and both stores stay as they
\* were.
C22_FieldOrderIgnored ==
  [][\A r \in Slots :
       (/\ Replaying(r)
        /\ reqs'[r].body # firstCall[reqs[r].key].body
        /\ JsonValue(reqs'[r].body) = JsonValue(firstCall[reqs[r].key].body))
       => /\ reqs'[r].code = 200
          /\ reqs'[r].data.id = firstCall[reqs[r].key].payment.id
          /\ paymentStore' = paymentStore
          /\ idempotencyKeyStore' = idempotencyKeyStore]_vars

\* slot r's createPayment returns in this step
CreateReturns(r) ==
  /\ reqs'[r].pc = "done" /\ reqs'[r].op = "create"
  /\ reqs[r].pc # "done" \/ started' # started

\* the response of slot r is 400 with `code`, and neither store has changed
Rejected(r, code) ==
  /\ reqs'[r].code = 400
  /\ reqs'[r].error = code
  /\ paymentStore' = paymentStore
  /\ idempotencyKeyStore' = idempotencyKeyStore
  /\ created' = created

\* C23: createPayment without a key is answered 400 MISSING_IDEMPOTENCY_KEY,
\* with a key that does not match idem_{a-z0-9}_{a-z0-9} of length >= 15
\* 400 INVALID_IDEMPOTENCY_KEY, and with a well-formed key not used before
\* and an amount <= 0 400 INVALID_AMOUNT; in each case no payment and no
\* idempotency record is created or changed.
C23_RejectedBeforeMutation ==
  [][\A r \in Slots :
       CreateReturns(r)
       => LET key == reqs'[r].key IN
            /\ key = KeyMissing => Rejected(r, "MISSING_IDEMPOTENCY_KEY")
            /\ (key # KeyMissing /\ ~isValidIdempotencyKey(key))
                 => Rejected(r, "INVALID_IDEMPOTENCY_KEY")
            /\ (/\ isValidIdempotencyKey(key)
                /\ key \notin DOMAIN idempotencyKeyStore
                /\ AmountOf(reqs'[r].body) <= 0)
                 => Rejected(r, "INVALID_AMOUNT")]_vars

\* the attention level the status of a batch calls for, at hour 0
AttentionFor(batch) ==
  IF batch.status = "requires_reconciliation" THEN "action_required"
  ELSE IF \/ batch.status = "partially_settled"
          \/ batch.status = "in_transit" /\ batch.expectedSettlementAt < 0
    THEN "warning"
  ELSE "none"

\* C24: every stored payout batch, after any sequence of simulate and
\* reconcile calls, has the attentionLevel its status calls for:
\* action_required in requires_reconciliation, warning in partially_settled
\* and in in_transit past expectedSettlementAt, none otherwise.
C24_AttentionFollowsStatus ==
  \A id \in DOMAIN payoutStore :
    payoutStore[id].attentionLevel = AttentionFor(payoutStore[id])

\* C25: every stored payout batch, after any sequence of reconcile and
\* simulate calls, has netAmount = grossAmount - totalFees and
\* settledAmount <= netAmount.
C25_AmountsConsistent ==
  \A id \in DOMAIN payoutStore :
    LET batch == payoutStore[id] IN
      /\ batch.netAmount = batch.grossAmount - batch.totalFees
      /\ batch.settledAmount <= batch.netAmount

\* the legal targets of a status, as the state graph lists them
GraphTargets(from) ==
  CASE from = "draft" -> <<"submitted", "canceled">>
    [] from = "submitted" -> <<"processing", "failed", "canceled">>
    [] from = "processing" -> <<"requires_action", "succeeded", "failed">>
    [] from = "requires_action" -> <<"processing", "succeeded", "failed", "canceled">>
    [] OTHER -> <<>>

\* C26: canTransition and canTransitionPayment return true for a pair of
\* payment statuses exactly when it is one of the 12 edges of the state
\* graph; for a pair that is not an edge getTransitionBlockReason returns a
\* non-empty text: the terminal-state message when `from` has no outgoing
\* edge, otherwise the message listing the legal targets of `from`.
C26_LegalityIsTheGraph ==
  /\ asked.fn \in {"canTransition", "canTransitionPayment"}
       => (asked.legal <=> <<asked.from, asked.to>> \in PaymentGraph)
  /\ (asked.fn = "getTransitionBlockReason" /\ <<asked.from, asked.to>> \notin PaymentGraph)
       => /\ asked.reason # ""
          /\ asked.reason =
               IF GraphTargets(asked.from) = <<>>
                 THEN "Payment is in terminal state \"" \o asked.from
                        \o "\" - no further transitions allowed"
               ELSE "Cannot transition from \"" \o asked.from \o "\" to \"" \o asked.to
                      \o "\". Valid targets: " \o JoinWith(GraphTargets(asked.from), ", ")

\* the messages 1, 2, 5, 6 were received, in that order, and nothing else,
\* by a hook on which reconnect() was never called
FedGapOfTwo == sseLog.fed = <<1, 2, 5, 6>> /\ sseLog.manual = 0

\* C27 as stated: after the messages 1, 2, 5, 6 missedEvents is 3.
C27_GapOfTwoCountsThree == FedGapOfTwo => sseState.missedEvents = 3

\* C27, amended: after the messages 1, 2, 5, 6 missedEvents is 2, the
\* sequence numbers 3 and 4 that never arrived.
C27_GapOfTwoCountsTwo == FedGapOfTwo => sseState.missedEvents = 2

C27_Witness == FedGapOfTwo /\ lastSequenceRef = 6 /\ sseState.missedEvents = 2

\* C28: at every instant at most one flush timeout of the buffer is pending
\* and at most one reconnect timeout of the stream hook is pending,
\* whatever pushes, errors and reconnect() calls came before.
C28_OnePendingTimeout ==
  /\ Cardinality(timers) <= 1
  /\ Cardinality(sseTimers) <= 1

\* item i waits in the queue; it was handed to onFlush
InQueue(i) == i \in SeqToSet(bufferRef)
Delivered(i) == i \in SeqToSet(Flatten(delivered))

\* C29: while the hook is mounted a non-empty queue always has its flush
\* timeout set, due no later than flushIntervalMs after the last flush; and
\* when time passes and due timeouts fire, every item that waits in the
\* queue is in the end handed to onFlush, unless it is evicted by overflow
\* or the hook is unmounted.
C29_QueuedItemsAreFlushed ==
  /\ [](mounted /\ bufferRef # <<>>
         => /\ flushTimeoutRef # NoTimeout
            /\ flushTimeoutRef \in timers
            /\ flushTimeoutRef <= lastFlushRef + flushIntervalMs)
  /\ \A i \in 1..MaxPushes :
       InQueue(i) ~> (Delivered(i) \/ ~InQueue(i) \/ ~mounted)
  /\ [][\A i \in 1..MaxPushes :
         InQueue(i) /\ ~InQueue(i)'
           => Delivered(i)' \/ droppedCountRef' = droppedCountRef + 1]_vars

\* two items that waited in the queue were delivered together, and a later
\* item waits with its timeout set
C29_Witness ==
  /\ mounted
  /\ Len(delivered) >= 2 /\ Len(delivered[2]) = 2
  /\ bufferRef # <<>>
  /\ flushTimeoutRef \in timers

\* C30: after any sequence of create, transition, submit, cancel and
\* simulate calls, the result held by the idempotency record of a key is the
\* stored payment that was created with the key, so a replayed create never
\* reports a status other than the stored one.
C30_RecordTracksPayment ==
  \A key \in DOMAIN idempotencyKeyStore :
    LET record == idempotencyKeyStore[key] IN
      /\ record.paymentId \in DOMAIN paymentStore
      /\ record.result = paymentStore[record.paymentId].payment

====
